---- MODULE Spec2Model ----
(***************************************************************************)
(* A model of the pylasr-sdk value codec: src/pylasr_sdk/outputs.py (the   *)
(* packaged module), src/outputs.py (the top-level module of the same      *)
(* name, imported by inputs.py as `outputs`) and src/pylasr_sdk/inputs.py. *)
(*                                                                         *)
(* Python values are records tagged by their class in the field cls:       *)
(*   int    [cls, neg, mag]   mag: base-16 digits, least significant first,*)
(*                            no most-significant zero digit (unbounded)   *)
(*   str    [cls, chars]      chars: sequence of one-character strings     *)
(*   bytes  [cls, data]       data: sequence of 0..255                     *)
(*   list   [cls, items]      dict [cls, items] items: <<key, value>> pairs*)
(*   set    [cls, items]      None [cls]                                   *)
(* and an instance of a class of the library is a record of its attributes.*)
(* A call ends in an outcome [exc, val]: exc = "" and the returned value,  *)
(* or the name of the exception raised.                                    *)
(***************************************************************************)
EXTENDS Integers, Sequences, FiniteSets, TLC

VARIABLES objs, call, ret

vars == <<objs, call, ret>>

\* ------------------------------------------------------------------------
\* Python values and outcomes

None == [cls |-> "NoneType"]

PyStr(chars) == [cls |-> "str", chars |-> chars]

PyBytes(data) == [cls |-> "bytes", data |-> data]

PyList(items) == [cls |-> "list", items |-> items]

PyDict(items) == [cls |-> "dict", items |-> items]

PySet(items) == [cls |-> "set", items |-> items]

PyInt(neg, mag) == [cls |-> "int", neg |-> neg, mag |-> mag]

Ok(v) == [exc |-> "", val |-> v]

Raise(e) == [exc |-> e, val |-> None]

isinstance(v, classes) == v.cls \in classes

\* String literals of the source, spelled as character sequences.
Lit(s) ==
  CASE s = "0x" -> PyStr(<<"0", "x">>)
    [] s = "this" -> PyStr(<<"t", "h", "i", "s">>)
    [] s = "This" -> PyStr(<<"T", "h", "i", "s">>)
    [] s = "Address" -> PyStr(<<"A", "d", "d", "r", "e", "s", "s">>)
    [] s = "Namespace" -> PyStr(<<"N", "a", "m", "e", "s", "p", "a", "c", "e">>)
    [] s = "address" -> PyStr(<<"a", "d", "d", "r", "e", "s", "s">>)
    [] s = "namespace" -> PyStr(<<"n", "a", "m", "e", "s", "p", "a", "c", "e">>)
    [] s = "U256" -> PyStr(<<"U", "2", "5", "6">>)
    [] s = "insert" -> PyStr(<<"i", "n", "s", "e", "r", "t">>)
    [] s = "extend" -> PyStr(<<"e", "x", "t", "e", "n", "d">>)
    [] s = "remove" -> PyStr(<<"r", "e", "m", "o", "v", "e">>)
    [] s = "revoke" -> PyStr(<<"r", "e", "v", "o", "k", "e">>)
    [] s = "push" -> PyStr(<<"p", "u", "s", "h">>)
    [] s = "pop" -> PyStr(<<"p", "o", "p">>)
    [] s = "credit" -> PyStr(<<"c", "r", "e", "d", "i", "t">>)
    [] s = "debit" -> PyStr(<<"d", "e", "b", "i", "t">>)
    [] s = "Insert" -> PyStr(<<"I", "n", "s", "e", "r", "t">>)
    [] s = "Extend" -> PyStr(<<"E", "x", "t", "e", "n", "d">>)
    [] s = "Remove" -> PyStr(<<"R", "e", "m", "o", "v", "e">>)
    [] s = "Revoke" -> PyStr(<<"R", "e", "v", "o", "k", "e">>)
    [] s = "Push" -> PyStr(<<"P", "u", "s", "h">>)
    [] s = "Pop" -> PyStr(<<"P", "o", "p">>)
    [] s = "Credit" -> PyStr(<<"C", "r", "e", "d", "i", "t">>)
    [] s = "Debit" -> PyStr(<<"D", "e", "b", "i", "t">>)
    [] s = "key" -> PyStr(<<"k", "e", "y">>)
    [] s = "value" -> PyStr(<<"v", "a", "l", "u", "e">>)
    [] s = "metadata" -> PyStr(<<"m", "e", "t", "a", "d", "a", "t", "a">>)
    [] s = "allowance" -> PyStr(<<"a", "l", "l", "o", "w", "a", "n", "c", "e">>)
    [] s = "approvals" -> PyStr(<<"a", "p", "p", "r", "o", "v", "a", "l", "s">>)
    [] s = "data" -> PyStr(<<"d", "a", "t", "a">>)
    [] s = "tokenIds" -> PyStr(<<"t", "o", "k", "e", "n", "I", "d", "s">>)
    [] s = "balance" -> PyStr(<<"b", "a", "l", "a", "n", "c", "e">>)
    [] s = "statusValue" -> PyStr(<<"s", "t", "a", "t", "u", "s", "V", "a", "l", "u", "e">>)
    [] s = "linkedProgramValue" -> PyStr(<<"l", "i", "n", "k", "e", "d", "P", "r", "o", "g", "r", "a", "m", "V", "a", "l", "u", "e">>)
    [] s = "linkedprogramsremove" -> PyStr(<<"l", "i", "n", "k", "e", "d", "p", "r", "o", "g", "r", "a", "m", "s", "r", "e", "m", "o", "v", "e">>)
    [] s = "linkedprogramsextend" -> PyStr(<<"l", "i", "n", "k", "e", "d", "p", "r", "o", "g", "r", "a", "m", "s", "e", "x", "t", "e", "n", "d">>)
    [] s = "linkedprogramsinsert" -> PyStr(<<"l", "i", "n", "k", "e", "d", "p", "r", "o", "g", "r", "a", "m", "s", "i", "n", "s", "e", "r", "t">>)
    [] s = "programmetadatainsert" -> PyStr(<<"p", "r", "o", "g", "r", "a", "m", "m", "e", "t", "a", "d", "a", "t", "a", "i", "n", "s", "e", "r", "t">>)
    [] s = "programmetadataextend" -> PyStr(<<"p", "r", "o", "g", "r", "a", "m", "m", "e", "t", "a", "d", "a", "t", "a", "e", "x", "t", "e", "n", "d">>)
    [] s = "programmetadataremove" -> PyStr(<<"p", "r", "o", "g", "r", "a", "m", "m", "e", "t", "a", "d", "a", "t", "a", "r", "e", "m", "o", "v", "e">>)
    [] s = "LinkedProgramsInsert" -> PyStr(<<"L", "i", "n", "k", "e", "d", "P", "r", "o", "g", "r", "a", "m", "s", "I", "n", "s", "e", "r", "t">>)
    [] s = "ProgramMetadataInsert" -> PyStr(<<"P", "r", "o", "g", "r", "a", "m", "M", "e", "t", "a", "d", "a", "t", "a", "I", "n", "s", "e", "r", "t">>)
    [] s = "linkedPrograms" -> PyStr(<<"l", "i", "n", "k", "e", "d", "P", "r", "o", "g", "r", "a", "m", "s">>)
    [] s = "free" -> PyStr(<<"f", "r", "e", "e">>)
    [] s = "locked" -> PyStr(<<"l", "o", "c", "k", "e", "d">>)
    [] s = "programId" -> PyStr(<<"p", "r", "o", "g", "r", "a", "m", "I", "d">>)
    [] s = "to" -> PyStr(<<"t", "o">>)
    [] s = "amount" -> PyStr(<<"a", "m", "o", "u", "n", "t">>)
    [] s = "updateFields" -> PyStr(<<"u", "p", "d", "a", "t", "e", "F", "i", "e", "l", "d", "s">>)
    [] s = "token" -> PyStr(<<"t", "o", "k", "e", "n">>)
    [] s = "from" -> PyStr(<<"f", "r", "o", "m">>)
    [] s = "ids" -> PyStr(<<"i", "d", "s">>)
    [] s = "caller" -> PyStr(<<"c", "a", "l", "l", "e", "r">>)
    [] s = "null" -> PyStr(<<"n", "u", "l", "l">>)
    [] s = "create" -> PyStr(<<"c", "r", "e", "a", "t", "e">>)
    [] s = "update" -> PyStr(<<"u", "p", "d", "a", "t", "e">>)
    [] s = "transfer" -> PyStr(<<"t", "r", "a", "n", "s", "f", "e", "r">>)
    [] s = "burn" -> PyStr(<<"b", "u", "r", "n">>)
    [] s = "log" -> PyStr(<<"l", "o", "g">>)
    [] s = "inputs" -> PyStr(<<"i", "n", "p", "u", "t", "s">>)
    [] s = "instructions" -> PyStr(<<"i", "n", "s", "t", "r", "u", "c", "t", "i", "o", "n", "s">>)
    [] s = "field" -> PyStr(<<"f", "i", "e", "l", "d">>)
    [] s = "program_namespace" -> PyStr(<<"p", "r", "o", "g", "r", "a", "m", "_", "n", "a", "m", "e", "s", "p", "a", "c", "e">>)
    [] s = "program_id" -> PyStr(<<"p", "r", "o", "g", "r", "a", "m", "_", "i", "d">>)
    [] s = "program_owner" -> PyStr(<<"p", "r", "o", "g", "r", "a", "m", "_", "o", "w", "n", "e", "r">>)
    [] s = "ownerId" -> PyStr(<<"o", "w", "n", "e", "r", "I", "d">>)
    [] s = "status" -> PyStr(<<"s", "t", "a", "t", "u", "s">>)
    [] s = "transactionType" -> PyStr(<<"t", "r", "a", "n", "s", "a", "c", "t", "i", "o", "n", "T", "y", "p", "e">>)
    [] s = "trasnactionInputs" -> PyStr(<<"t", "r", "a", "s", "n", "a", "c", "t", "i", "o", "n", "I", "n", "p", "u", "t", "s">>)
    [] s = "transactionInputs" -> PyStr(<<"t", "r", "a", "n", "s", "a", "c", "t", "i", "o", "n", "I", "n", "p", "u", "t", "s">>)
    [] s = "nonce" -> PyStr(<<"n", "o", "n", "c", "e">>)
    [] s = "v" -> PyStr(<<"v">>)
    [] s = "r" -> PyStr(<<"r">>)
    [] s = "s" -> PyStr(<<"s">>)
    [] s = "op" -> PyStr(<<"o", "p">>)
    [] s = "version" -> PyStr(<<"v", "e", "r", "s", "i", "o", "n">>)
    [] s = "accountInfo" -> PyStr(<<"a", "c", "c", "o", "u", "n", "t", "I", "n", "f", "o">>)
    [] s = "transaction" -> PyStr(<<"t", "r", "a", "n", "s", "a", "c", "t", "i", "o", "n">>)
    [] s = "contractInputs" -> PyStr(<<"c", "o", "n", "t", "r", "a", "c", "t", "I", "n", "p", "u", "t", "s">>)
    [] s = "call" -> PyStr(<<"c", "a", "l", "l">>)
    [] s = "send" -> PyStr(<<"s", "e", "n", "d">>)
    [] s = "bridgeIn" -> PyStr(<<"b", "r", "i", "d", "g", "e", "I", "n">>)
    [] s = "bridgeOut" -> PyStr(<<"b", "r", "i", "d", "g", "e", "O", "u", "t">>)
    [] s = "registerProgram" -> PyStr(<<"r", "e", "g", "i", "s", "t", "e", "r", "P", "r", "o", "g", "r", "a", "m">>)
    [] s = "accountType" -> PyStr(<<"a", "c", "c", "o", "u", "n", "t", "T", "y", "p", "e">>)
    [] s = "programNamespace" -> PyStr(<<"p", "r", "o", "g", "r", "a", "m", "N", "a", "m", "e", "s", "p", "a", "c", "e">>)
    [] s = "ownerAddress" -> PyStr(<<"o", "w", "n", "e", "r", "A", "d", "d", "r", "e", "s", "s">>)
    [] s = "programs" -> PyStr(<<"p", "r", "o", "g", "r", "a", "m", "s">>)
    [] s = "programAccountData" -> PyStr(<<"p", "r", "o", "g", "r", "a", "m", "A", "c", "c", "o", "u", "n", "t", "D", "a", "t", "a">>)
    [] s = "programAccountMetadata" -> PyStr(<<"p", "r", "o", "g", "r", "a", "m", "A", "c", "c", "o", "u", "n", "t", "M", "e", "t", "a", "d", "a", "t", "a">>)
    [] s = "programAccountLinkedPrograms" -> PyStr(<<"p", "r", "o", "g", "r", "a", "m", "A", "c", "c", "o", "u", "n", "t", "L", "i", "n", "k", "e", "d", "P", "r", "o", "g", "r", "a", "m", "s">>)
    [] s = "user" -> PyStr(<<"u", "s", "e", "r">>)

\* ------------------------------------------------------------------------
\* Unbounded naturals as base-16 digit sequences, least significant first

HexLower == <<"0", "1", "2", "3", "4", "5", "6", "7", "8", "9", "a", "b", "c", "d", "e", "f">>

HexUpper == <<"0", "1", "2", "3", "4", "5", "6", "7", "8", "9", "A", "B", "C", "D", "E", "F">>

Zeros(n) == [i \in 1..n |-> 0]

Digit(d, i) == IF i <= Len(d) THEN d[i] ELSE 0

RECURSIVE NatOf(_)
NatOf(n) == IF n = 0 THEN <<>> ELSE <<n % 16>> \o NatOf(n \div 16)

\* The operations below split the digits lo..hi in two halves, so that the
\* depth of the recursion is the logarithm of the number of digits.

\* the highest of the positions lo..hi that holds a digit other than 0, or 0
RECURSIVE TopDigit(_, _, _)
TopDigit(d, lo, hi) ==
  IF lo = hi THEN (IF d[lo] # 0 THEN lo ELSE 0)
  ELSE LET mid == (lo + hi) \div 2
           h == TopDigit(d, mid + 1, hi)
       IN IF h # 0 THEN h ELSE TopDigit(d, lo, mid)

NatNorm(d) == IF d = <<>> THEN <<>> ELSE SubSeq(d, 1, TopDigit(d, 1, Len(d)))

\* digits lo..hi of a + b + carry, and the carry out of them
RECURSIVE NatAddRange(_, _, _, _, _)
NatAddRange(a, b, lo, hi, carry) ==
  IF lo = hi
  THEN LET s == Digit(a, lo) + Digit(b, lo) + carry
       IN [d |-> <<s % 16>>, c |-> s \div 16]
  ELSE LET mid == (lo + hi) \div 2
           l == NatAddRange(a, b, lo, mid, carry)
           h == NatAddRange(a, b, mid + 1, hi, l.c)
       IN [d |-> l.d \o h.d, c |-> h.c]

NatAdd(a, b) ==
  LET n == IF Len(a) > Len(b) THEN Len(a) ELSE Len(b)
      r == NatAddRange(a, b, 1, n, 0)
  IN IF n = 0 THEN <<>> ELSE IF r.c = 0 THEN r.d ELSE Append(r.d, r.c)

\* digits lo..hi of a - b - borrow, and the borrow out of them
RECURSIVE NatSubRange(_, _, _, _, _)
NatSubRange(a, b, lo, hi, borrow) ==
  IF lo = hi
  THEN LET s == Digit(a, lo) - Digit(b, lo) - borrow
       IN IF s < 0 THEN [d |-> <<s + 16>>, c |-> 1] ELSE [d |-> <<s>>, c |-> 0]
  ELSE LET mid == (lo + hi) \div 2
           l == NatSubRange(a, b, lo, mid, borrow)
           h == NatSubRange(a, b, mid + 1, hi, l.c)
       IN [d |-> l.d \o h.d, c |-> h.c]

\* a - b for a >= b
NatSub(a, b) == IF a = <<>> THEN <<>> ELSE NatNorm(NatSubRange(a, b, 1, Len(a), 0).d)

\* -1, 0, 1: digits lo..hi of a are less than, equal to, greater than b's
RECURSIVE NatCmpRange(_, _, _, _)
NatCmpRange(a, b, lo, hi) ==
  IF lo = hi
  THEN (IF a[lo] < b[lo] THEN -1 ELSE IF a[lo] > b[lo] THEN 1 ELSE 0)
  ELSE LET mid == (lo + hi) \div 2
           h == NatCmpRange(a, b, mid + 1, hi)
       IN IF h # 0 THEN h ELSE NatCmpRange(a, b, lo, mid)

NatLess(a, b) ==
  IF Len(a) # Len(b) THEN Len(a) < Len(b)
  ELSE IF a = <<>> THEN FALSE
  ELSE NatCmpRange(a, b, 1, Len(a)) < 0

NatShl(a, digits) == IF a = <<>> THEN <<>> ELSE Zeros(digits) \o a

\* digits lo..hi of a * m + carry for one digit m, and the carry out
RECURSIVE NatMulDigitRange(_, _, _, _, _)
NatMulDigitRange(a, m, lo, hi, carry) ==
  IF lo = hi
  THEN LET s == a[lo] * m + carry
       IN [d |-> <<s % 16>>, c |-> s \div 16]
  ELSE LET mid == (lo + hi) \div 2
           l == NatMulDigitRange(a, m, lo, mid, carry)
           h == NatMulDigitRange(a, m, mid + 1, hi, l.c)
       IN [d |-> l.d \o h.d, c |-> h.c]

NatMulDigit(a, m) ==
  IF a = <<>> THEN <<>>
  ELSE LET r == NatMulDigitRange(a, m, 1, Len(a), 0)
       IN NatNorm(Append(r.d, r.c))

\* a times the digits lo..hi of b, each at its place
RECURSIVE NatMulRange(_, _, _, _)
NatMulRange(a, b, lo, hi) ==
  IF lo = hi THEN NatShl(NatMulDigit(a, b[lo]), lo - 1)
  ELSE LET mid == (lo + hi) \div 2
       IN NatAdd(NatMulRange(a, b, lo, mid), NatMulRange(a, b, mid + 1, hi))

NatMul(a, b) == IF b = <<>> THEN <<>> ELSE NatMulRange(a, b, 1, Len(b))

\* Schoolbook division, most significant digit first: [q, r] with
\* a = q * b + r and r < b, for b # 0.
RECURSIVE NatQuotDigit(_, _, _)
NatQuotDigit(r, b, n) ==
  IF NatLess(r, b) THEN [q |-> n, r |-> r]
  ELSE NatQuotDigit(NatSub(r, b), b, n + 1)

\* the digits hi down to lo of a brought down onto the remainder r (the test
\* of h.r makes TLC work the high half out before it starts on the low one)
RECURSIVE NatDivRange(_, _, _, _, _)
NatDivRange(a, b, hi, lo, r) ==
  IF lo = hi
  THEN LET step == NatQuotDigit(NatNorm(<<a[lo]>> \o r), b, 0)
       IN [q |-> <<step.q>>, r |-> step.r]
  ELSE LET mid == (lo + hi) \div 2
           h == NatDivRange(a, b, hi, mid + 1, r)
           l == NatDivRange(a, b, mid, lo, h.r)
       IN IF h.r = h.r THEN [q |-> l.q \o h.q, r |-> l.r] ELSE h

NatDivMod(a, b) ==
  IF a = <<>> THEN [q |-> <<>>, r |-> <<>>]
  ELSE LET d == NatDivRange(a, b, Len(a), 1, <<>>)
       IN [q |-> NatNorm(d.q), r |-> d.r]

\* ------------------------------------------------------------------------
\* Python's int, str and bytes operations the library calls

IntOf(n) == PyInt(FALSE, NatOf(n))

\* 2^bits as a digit sequence
Pow2(bits) == Zeros(bits \div 4) \o <<2 ^ (bits % 4)>>

MkInt(neg, mag) == PyInt(neg /\ mag # <<>>, mag)

IntAdd(x, y) ==
  IF x.neg = y.neg THEN MkInt(x.neg, NatAdd(x.mag, y.mag))
  ELSE IF NatLess(x.mag, y.mag) THEN MkInt(y.neg, NatSub(y.mag, x.mag))
  ELSE MkInt(x.neg, NatSub(x.mag, y.mag))

IntNeg(x) == MkInt(~x.neg, x.mag)

IntSub(x, y) == IntAdd(x, IntNeg(y))

IntMul(x, y) == MkInt(x.neg # y.neg, NatMul(x.mag, y.mag))

IntLess(x, y) ==
  IF x.neg # y.neg THEN x.neg
  ELSE IF x.neg THEN NatLess(y.mag, x.mag)
  ELSE NatLess(x.mag, y.mag)

IntLeq(x, y) == x = y \/ IntLess(x, y)

\* x << bits, bits a multiple of 4
py_lshift(x, bits) == MkInt(x.neg, NatShl(x.mag, bits \div 4))

\* x // y for y # 0: the quotient rounded towards minus infinity
py_floordiv(x, y) ==
  LET d == NatDivMod(x.mag, y.mag)
  IN IF x.neg = y.neg THEN MkInt(FALSE, d.q)
     ELSE IF d.r = <<>> THEN MkInt(TRUE, d.q)
     ELSE MkInt(TRUE, NatAdd(d.q, <<1>>))

\* sum(...) over a sequence of ints, left to right from 0
RECURSIVE py_sum(_)
py_sum(xs) ==
  IF xs = <<>> THEN IntOf(0)
  ELSE IntAdd(py_sum(SubSeq(xs, 1, Len(xs) - 1)), xs[Len(xs)])

HasLen == {"bytes", "list", "str", "dict", "set"}

py_len(v) ==
  CASE v.cls = "bytes" -> Len(v.data)
    [] v.cls = "str" -> Len(v.chars)
    [] OTHER -> Len(v.items)

\* the elements a for loop over v visits
py_iter(v) ==
  CASE v.cls = "bytes" -> [i \in 1..Len(v.data) |-> IntOf(v.data[i])]
    [] v.cls = "str" -> [i \in 1..Len(v.chars) |-> PyStr(<<v.chars[i]>>)]
    [] v.cls = "dict" -> [i \in 1..Len(v.items) |-> v.items[i][1]]
    [] OTHER -> v.items

\* bytes(x)
py_bytes(v) ==
  CASE v.cls = "bytes" -> Ok(v)
    [] v.cls = "list" ->
         IF \E i \in 1..Len(v.items) : v.items[i].cls # "int" THEN Raise("TypeError")
         ELSE IF \E i \in 1..Len(v.items) :
                   v.items[i].neg \/ ~NatLess(v.items[i].mag, NatOf(256))
         THEN Raise("ValueError")
         ELSE Ok(PyBytes([i \in 1..Len(v.items) |->
                   Digit(v.items[i].mag, 1) + 16 * Digit(v.items[i].mag, 2)]))
    [] OTHER -> Raise("TypeError")

\* bytes.hex(): two lowercase digits a byte, the high one first
bytes_hex(data) ==
  [i \in 1..(2 * Len(data)) |->
     IF i % 2 = 1 THEN HexLower[(data[(i + 1) \div 2] \div 16) + 1]
     ELSE HexLower[(data[i \div 2] % 16) + 1]]

IsHexChar(c) == \E i \in 1..16 : HexLower[i] = c \/ HexUpper[i] = c

HexVal(c) == (CHOOSE i \in 1..16 : HexLower[i] = c \/ HexUpper[i] = c) - 1

\* bytes.fromhex(s): whitespace between the bytes is skipped, every byte is
\* two adjacent hex digits of either case
RECURSIVE fromhex_scan(_, _, _)
fromhex_scan(cs, i, acc) ==
  IF i > Len(cs) THEN Ok(PyBytes(acc))
  ELSE IF cs[i] = " " THEN fromhex_scan(cs, i + 1, acc)
  ELSE IF i + 1 <= Len(cs) /\ IsHexChar(cs[i]) /\ IsHexChar(cs[i + 1])
  THEN fromhex_scan(cs, i + 2, Append(acc, 16 * HexVal(cs[i]) + HexVal(cs[i + 1])))
  ELSE Raise("ValueError")

bytes_fromhex(s) ==
  IF s.cls # "str" THEN Raise("TypeError") ELSE fromhex_scan(s.chars, 1, <<>>)

\* s.startswith("0x")
str_startswith_0x(cs) == Len(cs) >= 2 /\ cs[1] = "0" /\ cs[2] = "x"

\* hex_str[2:]
str_from2(cs) == SubSeq(cs, 3, Len(cs))

\* format(value, '064x'): sign, then zeros up to a total width of 64, then
\* the lowercase digits, most significant first
py_format_064x(v) ==
  CASE v.cls = "int" ->
         LET digits == IF v.mag = <<>> THEN <<"0">>
                       ELSE [i \in 1..Len(v.mag) |-> HexLower[v.mag[Len(v.mag) + 1 - i] + 1]]
             sign == IF v.neg THEN <<"-">> ELSE <<>>
             pad == 64 - Len(sign) - Len(digits)
         IN Ok(PyStr(sign \o (IF pad > 0 THEN [i \in 1..pad |-> "0"] ELSE <<>>) \o digits))
    [] v.cls = "str" -> Raise("ValueError")
    [] OTHER -> Raise("TypeError")

RECURSIVE StripLeft(_)
StripLeft(cs) ==
  IF cs # <<>> /\ cs[1] = " " THEN StripLeft(Tail(cs)) ELSE cs

RECURSIVE StripRight(_)
StripRight(cs) ==
  IF cs # <<>> /\ cs[Len(cs)] = " " THEN StripRight(SubSeq(cs, 1, Len(cs) - 1)) ELSE cs

\* the digits of an int literal: hex digits, single underscores between them
DigitsOk(cs) ==
  /\ cs # <<>>
  /\ cs[1] # "_"
  /\ cs[Len(cs)] # "_"
  /\ \A i \in 1..Len(cs) : IsHexChar(cs[i]) \/ cs[i] = "_"
  /\ \A i \in 1..(Len(cs) - 1) : ~(cs[i] = "_" /\ cs[i + 1] = "_")

DigitsMag(cs) ==
  LET ds == SelectSeq(cs, LAMBDA c : c # "_")
  IN [i \in 1..Len(ds) |-> HexVal(ds[Len(ds) + 1 - i])]

\* int(s, 16): surrounding whitespace, a sign, a 0x or 0X prefix (and one
\* underscore after it) are accepted before the digits
py_int_16(s) ==
  IF s.cls # "str" THEN Raise("TypeError")
  ELSE LET t == StripRight(StripLeft(s.chars))
           neg == t # <<>> /\ t[1] = "-"
           u == IF t # <<>> /\ t[1] \in {"-", "+"} THEN Tail(t) ELSE t
           pre == Len(u) >= 2 /\ u[1] = "0" /\ u[2] \in {"x", "X"}
           w == IF pre THEN SubSeq(u, 3, Len(u)) ELSE u
           d == IF pre /\ w # <<>> /\ w[1] = "_" THEN Tail(w) ELSE w
       IN IF DigitsOk(d) THEN Ok(MkInt(neg, NatNorm(DigitsMag(d))))
          ELSE Raise("ValueError")

\* ------------------------------------------------------------------------
\* Address

AddressLen == 20

\* mutation: only too long an argument is refused
Address_init_ShortAccepted(address_bytes) ==
  IF address_bytes.cls \notin HasLen THEN Raise("TypeError")
  ELSE IF py_len(address_bytes) > AddressLen THEN Raise("ValueError")
  ELSE LET b == py_bytes(address_bytes)
       IN IF b.exc # "" THEN b
          ELSE Ok([cls |-> "Address", address_bytes |-> b.val])

Address_init(address_bytes) ==
  IF address_bytes.cls \notin HasLen THEN Raise("TypeError")
  ELSE IF py_len(address_bytes) # AddressLen THEN Raise("ValueError")
  ELSE LET b == py_bytes(address_bytes)
       IN IF b.exc # "" THEN b
          ELSE Ok([cls |-> "Address", address_bytes |-> b.val])

Address_to_dict(self) ==
  Ok(PyStr(Lit("0x").chars \o bytes_hex(self.address_bytes.data)))

\* mutation: the 0x prefix is not cut off
Address_from_hex_PrefixKept(hex_str) ==
  IF hex_str.cls # "str" THEN Raise("AttributeError")
  ELSE LET b == bytes_fromhex(hex_str)
       IN IF b.exc # "" THEN b ELSE Address_init(b.val)

Address_from_hex(hex_str) ==
  IF hex_str.cls # "str" THEN Raise("AttributeError")
  ELSE LET s == IF str_startswith_0x(hex_str.chars)
                THEN PyStr(str_from2(hex_str.chars)) ELSE hex_str
           b == bytes_fromhex(s)
       IN IF b.exc # "" THEN b ELSE Address_init(b.val)

\* src/outputs.py: the constructor keeps its argument as it is given
Legacy_Address_init(address_bytes) ==
  IF address_bytes.cls \notin HasLen THEN Raise("TypeError")
  ELSE IF py_len(address_bytes) # AddressLen THEN Raise("ValueError")
  ELSE Ok([cls |-> "LegacyAddress", address_bytes |-> address_bytes])

\* ------------------------------------------------------------------------
\* U256

U256_init(value) == Ok([cls |-> "U256", value |-> value])

U256_to_hex(self) == py_format_064x(self.value)

U256_to_dict(self) ==
  LET h == U256_to_hex(self)
  IN IF h.exc # "" THEN h ELSE Ok(PyStr(Lit("0x").chars \o h.val.chars))

LimbBits == 64

\* mutation: the first limb is taken as the most significant
U256_from_list_BigEndian(value_list) ==
  IF value_list.cls \notin HasLen THEN Raise("TypeError")
  ELSE LET xs == py_iter(value_list)
       IN IF Len(xs) # 4 \/ \E i \in 1..Len(xs) : ~isinstance(xs[i], {"int"})
          THEN Raise("ValueError")
          ELSE U256_init(py_sum([i \in 1..Len(xs) |->
                          py_lshift(xs[i], (Len(xs) - i) * LimbBits)]))

U256_from_list(value_list) ==
  IF value_list.cls \notin HasLen THEN Raise("TypeError")
  ELSE LET xs == py_iter(value_list)
       IN IF Len(xs) # 4 \/ \E i \in 1..Len(xs) : ~isinstance(xs[i], {"int"})
          THEN Raise("ValueError")
          ELSE U256_init(py_sum([i \in 1..Len(xs) |->
                          py_lshift(xs[i], (i - 1) * LimbBits)]))

\* mutation: two characters are cut off whether or not they are "0x"
U256_from_hex_AlwaysCut(hex_str) ==
  IF hex_str.cls # "str" THEN Raise("AttributeError")
  ELSE LET value == py_int_16(PyStr(str_from2(hex_str.chars)))
       IN IF value.exc # "" THEN value ELSE U256_init(value.val)

U256_from_hex(hex_str) ==
  IF hex_str.cls # "str" THEN Raise("AttributeError")
  ELSE LET s == IF str_startswith_0x(hex_str.chars)
                THEN PyStr(str_from2(hex_str.chars)) ELSE hex_str
           value == py_int_16(s)
       IN IF value.exc # "" THEN value ELSE U256_init(value.val)

\* mutation: the quotient is stored in self, which is returned
U256_truediv_InPlace(self, other) ==
  LET ok == /\ isinstance(other, {"U256"})
            /\ other.value # IntOf(0)
            /\ self.value.cls = "int"
            /\ other.value.cls = "int"
      q == [self EXCEPT !.value = py_floordiv(self.value, other.value)]
  IN [self |-> IF ok THEN q ELSE self,
      other |-> other,
      out |-> IF ~isinstance(other, {"U256"}) THEN Raise("TypeError")
              ELSE IF other.value = IntOf(0) THEN Raise("ZeroDivisionError")
              ELSE IF ~ok THEN Raise("TypeError")
              ELSE Ok(q)]

\* The outcome of self / other, and self and other as the call leaves them.
U256_truediv(self, other) ==
  [self |-> self,
   other |-> other,
   out |-> IF ~isinstance(other, {"U256"}) THEN Raise("TypeError")
           ELSE IF other.value = IntOf(0) THEN Raise("ZeroDivisionError")
           ELSE IF self.value.cls # "int" \/ other.value.cls # "int"
           THEN Raise("TypeError")
           ELSE U256_init(py_floordiv(self.value, other.value))]

U256_floordiv(self, other) == U256_truediv(self, other)

\* ------------------------------------------------------------------------
\* The client: one call of the library at a time. call is the call made
\* last, ret its outcome; objs are the objects the client has kept.

MaxObjs == 2

MaxBytesLen == 21

Called(op, args) == [op |-> op, args |-> args]

Init ==
  /\ objs = <<>>
  /\ call = Called("start", <<>>)
  /\ ret = Ok(None)

Range(s) == {s[i] : i \in 1..Len(s)}

\* what a method can be called on: a kept object or the value just returned
Targets(cls) == {o \in Range(objs) \cup {ret.val} : o.cls = cls}

\* the calls whose result the client keeps: x = Address(...), x = U256(...)
KeptCalls == {"Address", "Address.from_hex", "U256", "Namespace", "AddressOrNamespace"}

Keep ==
  /\ call.op \in KeptCalls
  /\ ret.exc = ""
  /\ Len(objs) < MaxObjs
  /\ ret.val \notin Range(objs)
  /\ objs' = Append(objs, ret.val)
  /\ UNCHANGED <<call, ret>>

\* --- inputs of the Address calls

ByteSeq(n, seed, step) == [i \in 1..n |-> (seed + (i - 1) * step) % 256]

ByteSeqs ==
  {ByteSeq(n, seed, step) :
     n \in {0} \cup ((AddressLen - 1)..MaxBytesLen), seed \in {0, 250}, step \in {0, 1}}

IntList(data) == PyList([i \in 1..Len(data) |-> IntOf(data[i])])

AddressArgs ==
  {PyBytes(d) : d \in ByteSeqs}
    \cup {IntList(ByteSeq(n, 254, 1)) : n \in (AddressLen - 1)..MaxBytesLen}
    \cup {IntList(ByteSeq(AddressLen, 7, 0)),
          PyList([i \in 1..AddressLen |-> IntOf(256)]),
          PyStr([i \in 1..AddressLen |-> "a"]),
          None}

\* the ways a client writes bytes as hex text
HexText(data, style) ==
  LET lower == bytes_hex(data)
      upper == [i \in 1..Len(lower) |-> HexUpper[HexVal(lower[i]) + 1]]
  IN CASE style = "0x" -> <<"0", "x">> \o lower
       [] style = "plain" -> lower
       [] style = "0xUPPER" -> <<"0", "x">> \o upper
       [] style = "0X" -> <<"0", "X">> \o lower
       [] style = "spaced" -> <<" ">> \o SubSeq(lower, 1, 2) \o <<" ">> \o SubSeq(lower, 3, Len(lower))
       [] style = "odd" -> <<"0", "x">> \o SubSeq(lower, 1, Len(lower) - 1)
       [] style = "nonhex" -> <<"0", "x", "g">> \o SubSeq(lower, 2, Len(lower))

HexStyles == {"0x", "plain", "0xUPPER", "0X", "spaced", "odd", "nonhex"}

AddressHexArgs ==
  {PyStr(HexText(d, "0x")) : d \in {e \in ByteSeqs : e # <<>>}}
    \cup {PyStr(HexText(ByteSeq(n, 250, 1), style)) :
            n \in (AddressLen - 1)..MaxBytesLen, style \in HexStyles}
    \cup {PyStr(<<>>), PyStr(<<"0", "x">>), None}

\* the text just returned, whole or with its first two characters cut off
RetText ==
  IF ret.exc = "" /\ ret.val.cls = "str"
  THEN {ret.val, PyStr(str_from2(ret.val.chars))}
  ELSE {}

\* --- the Address calls

\* The outcomes of op(x) for the inputs x of S, computed once.
Outcomes(op, F(_), S) == {[call |-> Called(op, <<x>>), ret |-> F(x)] : x \in S}

AddressOutcomes == Outcomes("Address", Address_init, AddressArgs)

CallAddress ==
  \E c \in AddressOutcomes :
    /\ call' = c.call
    /\ ret' = c.ret
    /\ UNCHANGED objs

LegacyAddressOutcomes == Outcomes("outputs.Address", Legacy_Address_init, AddressArgs)

CallLegacyAddress ==
  \E c \in LegacyAddressOutcomes :
    /\ call' = c.call
    /\ ret' = c.ret
    /\ UNCHANGED objs

AddressFromHexOutcomes == Outcomes("Address.from_hex", Address_from_hex, AddressHexArgs)

CallAddressFromHex ==
  \E c \in AddressFromHexOutcomes \cup Outcomes("Address.from_hex", Address_from_hex, RetText) :
    /\ call' = c.call
    /\ ret' = c.ret
    /\ UNCHANGED objs

CallAddressToDict ==
  \E self \in Targets("Address") :
    /\ call' = Called("Address.to_dict", <<self>>)
    /\ ret' = Address_to_dict(self)
    /\ UNCHANGED objs

NextAddress ==
  \/ CallAddress
  \/ CallLegacyAddress
  \/ CallAddressFromHex
  \/ CallAddressToDict
  \/ Keep

SpecAddress == Init /\ [][NextAddress]_vars

\* ------------------------------------------------------------------------
\* Properties of Address

IsByteSeq(v) ==
  \/ v.cls = "bytes"
  \/ /\ v.cls = "list"
     /\ \A i \in 1..Len(v.items) :
          /\ v.items[i].cls = "int"
          /\ ~v.items[i].neg
          /\ NatLess(v.items[i].mag, NatOf(256))

BytesOf(v) ==
  IF v.cls = "bytes" THEN v.data
  ELSE [i \in 1..Len(v.items) |-> Digit(v.items[i].mag, 1) + 16 * Digit(v.items[i].mag, 2)]

\* C1: the Address constructor fails, returning no Address, for every byte
\* sequence whose length is not 20, and for every byte sequence of length 20
\* it succeeds with an Address that holds exactly those bytes.
C1_AddressLength ==
  (call.op \in {"Address", "outputs.Address"} /\ IsByteSeq(call.args[1])) =>
    IF Len(BytesOf(call.args[1])) = 20
    THEN /\ ret.exc = ""
         /\ ret.val.cls \in {"Address", "LegacyAddress"}
         /\ BytesOf(ret.val.address_bytes) = BytesOf(call.args[1])
    ELSE /\ ret.exc # ""
         /\ ret.val = None

C1_Witness ==
  /\ call.op = "Address"
  /\ IsByteSeq(call.args[1])
  /\ Len(BytesOf(call.args[1])) = 20
  /\ ret.exc = ""
  /\ ret.val.address_bytes.data[1] = 250

AllHex(cs) == \A i \in 1..Len(cs) : IsHexChar(cs[i])

AllLowerHex(cs) == \A i \in 1..Len(cs) : \E d \in 1..16 : HexLower[d] = cs[i]

\* C2: the encoder gives "0x" and 40 lowercase hex characters; from_hex of
\* the hex form of a kept Address a, with or without the "0x", returns an
\* Address equal to a; from_hex of "0x" + h returns what from_hex of h
\* returns, for hex digits h; and from_hex fails when the digits decode to a
\* number of bytes other than 20.
C2_AddressHexRoundTrip ==
  /\ call.op = "Address.to_dict" =>
       /\ ret.exc = ""
       /\ ret.val.cls = "str"
       /\ Len(ret.val.chars) = 42
       /\ SubSeq(ret.val.chars, 1, 2) = <<"0", "x">>
       /\ AllLowerHex(SubSeq(ret.val.chars, 3, 42))
  /\ (call.op = "Address.from_hex" /\ call.args[1].cls = "str") =>
       LET s == call.args[1].chars
           prefixed == Len(s) >= 2 /\ SubSeq(s, 1, 2) = <<"0", "x">>
           h == IF prefixed THEN SubSeq(s, 3, Len(s)) ELSE s
       IN /\ \A a \in Range(objs) :
               (a.cls = "Address" /\ <<"0", "x">> \o h = Address_to_dict(a).val.chars)
                 => ret = Ok(a)
          /\ (AllHex(h) /\ prefixed) => ret = Address_from_hex(PyStr(h))
          /\ (AllHex(h) /\ Len(h) % 2 = 0 /\ Len(h) \div 2 # 20) =>
               (ret.exc # "" /\ ret.val = None)

C2_Witness ==
  /\ call.op = "Address.from_hex"
  /\ ret.exc = ""
  /\ \E i \in 1..Len(objs) :
       /\ objs[i].cls = "Address"
       /\ call.args[1] = Address_to_dict(objs[i]).val
       /\ ret.val = objs[i]
       /\ objs[i].address_bytes.data[2] = 251

\* ------------------------------------------------------------------------
\* The U256 calls

U64Max == PyInt(FALSE, [i \in 1..(LimbBits \div 4) |-> 15])

U256Bits == 256

U256Max == PyInt(FALSE, [i \in 1..(U256Bits \div 4) |-> 15])

U256Args ==
  {IntOf(0), IntOf(100), PyInt(FALSE, Pow2(LimbBits)), U256Max,
   PyInt(FALSE, Pow2(U256Bits)), PyInt(TRUE, <<1>>)}

OneHot(p, v) == PyList([i \in 1..4 |-> IF i = p THEN v ELSE IntOf(0)])

LimbLists ==
  {OneHot(p, v) : p \in 1..4, v \in {IntOf(1), U64Max, PyInt(FALSE, Pow2(LimbBits))}}
    \cup {PyList(<<U64Max, U64Max, U64Max, U64Max>>),
          PyList(<<IntOf(1), IntOf(2), IntOf(3), IntOf(4)>>),
          PyList(<<IntOf(100), IntOf(0), IntOf(0), IntOf(0)>>),
          PyList(<<PyInt(TRUE, <<1>>), IntOf(0), IntOf(0), IntOf(0)>>),
          PyList(<<>>),
          PyList(<<IntOf(1), IntOf(2), IntOf(3)>>),
          PyList(<<IntOf(1), IntOf(2), IntOf(3), IntOf(4), IntOf(5)>>),
          PyList(<<IntOf(1), PyStr(<<"2">>), IntOf(3), IntOf(4)>>),
          PyList(<<IntOf(1), IntOf(2), IntOf(3), None>>),
          PyBytes(<<1, 2, 3, 4>>),
          PyStr(<<"1", "2", "3", "4">>),
          None}

U256HexArgs ==
  {PyStr(<<"0", "x", "6", "4">>),
   PyStr(<<"6", "4">>),
   PyStr(<<"0", "X", "6", "4">>),
   PyStr(<<" ", "0", "x", "_", "6", "4", " ">>),
   PyStr(<<"F", "f">>),
   PyStr(<<"-", "1">>),
   PyStr(<<"1">> \o [i \in 1..(U256Bits \div 4) |-> "0"]),
   PyStr(<<"0", "x">> \o [i \in 1..(U256Bits \div 4) |-> "f"]),
   PyStr(<<"0", "x", "z", "z">>),
   PyStr(<<"6", "_", "_", "4">>),
   PyStr(<<"0", "x">>),
   PyStr(<<>>),
   None}

U256Outcomes == Outcomes("U256", U256_init, U256Args)

CallU256 ==
  \E c \in U256Outcomes :
    /\ call' = c.call
    /\ ret' = c.ret
    /\ UNCHANGED objs

U256FromListOutcomes == Outcomes("U256.from_list", U256_from_list, LimbLists)

CallU256FromList ==
  \E c \in U256FromListOutcomes :
    /\ call' = c.call
    /\ ret' = c.ret
    /\ UNCHANGED objs

U256FromHexOutcomes == Outcomes("U256.from_hex", U256_from_hex, U256HexArgs)

\* the text just returned
RetWhole == IF ret.exc = "" /\ ret.val.cls = "str" THEN {ret.val} ELSE {}

CallU256FromHex ==
  \E c \in U256FromHexOutcomes \cup Outcomes("U256.from_hex", U256_from_hex, RetWhole) :
    /\ call' = c.call
    /\ ret' = c.ret
    /\ UNCHANGED objs

CallU256ToHex ==
  \E self \in Targets("U256") :
    /\ call' = Called("U256.to_hex", <<self>>)
    /\ ret' = U256_to_hex(self)
    /\ UNCHANGED objs

CallU256ToDict ==
  \E self \in Targets("U256") :
    /\ call' = Called("U256.to_dict", <<self>>)
    /\ ret' = U256_to_dict(self)
    /\ UNCHANGED objs

\* what a client may write to the right of / besides a kept object
DivisorArgs == {IntOf(2), None}

\* the U256 objects a client can have kept
U256Kept == {c.ret.val : c \in U256Outcomes}

\* The outcomes of self op other, computed once.
BinaryOutcomes(F(_, _), S, T) ==
  {[self |-> a, other |-> b, r |-> F(a, b)] : a \in S, b \in T}

\* objs after a method has run on objs[i] with objs[j] as its argument
\* (j = 0: the argument is not a kept object)
After(i, j, r) ==
  [k \in 1..Len(objs) |-> IF k = i THEN r.self ELSE IF k = j THEN r.other ELSE objs[k]]

\* the places of other among the kept objects, or 0 when it is not kept
Places(other) ==
  IF other \in Range(objs) THEN {j \in 1..Len(objs) : objs[j] = other} ELSE {0}

TrueDivOutcomes == BinaryOutcomes(U256_truediv, U256Kept, U256Kept \cup DivisorArgs)

CallU256TrueDiv ==
  \E i \in 1..Len(objs) :
    \E d \in {e \in TrueDivOutcomes : e.self = objs[i]} :
      \E j \in Places(d.other) :
        /\ j = 0 => d.other \in DivisorArgs
        /\ call' = [op |-> "U256.__truediv__", args |-> <<d.self, d.other>>, at |-> <<i, j>>]
        /\ ret' = d.r.out
        /\ objs' = After(i, j, d.r)

FloorDivOutcomes == BinaryOutcomes(U256_floordiv, U256Kept, U256Kept \cup DivisorArgs)

CallU256FloorDiv ==
  \E i \in 1..Len(objs) :
    \E d \in {e \in FloorDivOutcomes : e.self = objs[i]} :
      \E j \in Places(d.other) :
        /\ j = 0 => d.other \in DivisorArgs
        /\ call' = [op |-> "U256.__floordiv__", args |-> <<d.self, d.other>>, at |-> <<i, j>>]
        /\ ret' = d.r.out
        /\ objs' = After(i, j, d.r)

NextU256 ==
  \/ CallU256
  \/ CallU256FromList
  \/ CallU256FromHex
  \/ CallU256ToHex
  \/ CallU256ToDict
  \/ CallU256TrueDiv
  \/ CallU256FloorDiv
  \/ Keep

SpecU256 == Init /\ [][NextU256]_vars

\* ------------------------------------------------------------------------
\* Properties of U256

U256Calls ==
  {"U256", "U256.from_list", "U256.from_hex", "U256.__truediv__", "U256.__floordiv__"}

\* v is an int in [0, 2^256 - 1]
InU256Range(v) == v.cls = "int" /\ ~v.neg /\ IntLeq(v, U256Max)

\* v is an int in [0, 2^64 - 1]
InLimbRange(v) == v.cls = "int" /\ ~v.neg /\ IntLeq(v, U64Max)

\* the U256 objects the calls of the client produce
U256Made ==
  {c.ret.val : c \in {d \in U256Outcomes \cup U256FromListOutcomes \cup U256FromHexOutcomes :
                        d.ret.exc = ""}}
    \cup {d.r.out.val : d \in {e \in TrueDivOutcomes : e.r.out.exc = ""}}

\* the two hex forms of the objects made, those out of range left out
HexForms ==
  {[x |-> x, hex |-> U256_to_hex(x), dict |-> U256_to_dict(x)] :
     x \in {y \in U256Made : InU256Range(y.value)}}

\* C3: for every x in [0, 2^256 - 1], U256.from_hex of the 64 character hex
\* form of x, and of the "0x" prefixed form to_dict emits, is a U256 of
\* value x.
C3_U256HexRoundTrip ==
  call.op = "U256.from_hex" =>
    \A f \in HexForms :
      (Ok(call.args[1]) \in {f.hex, f.dict}) => ret = Ok(f.x)

\* 2^256 - 1, kept, was encoded by to_dict and the text decoded again
C3_Witness ==
  /\ call.op = "U256.from_hex"
  /\ \E x \in Range(objs) :
       /\ x.cls = "U256"
       /\ x.value = U256Max
       /\ Ok(call.args[1]) = U256_to_dict(x)
       /\ ret = Ok(x)

\* C4: to_hex returns exactly 64 lowercase hex characters for every U256
\* the constructor, from_list, from_hex or a division produces.
C4_ToHexIs64Chars ==
  call.op = "U256.to_hex" =>
    /\ ret.exc = ""
    /\ Len(ret.val.chars) = 64
    /\ AllLowerHex(ret.val.chars)

\* C5: every U256 constructed holds a value in [0, 2^256 - 1]; construction
\* from anything else fails, and from_list fails on a limb over 64 bits.
C5_U256InRange ==
  /\ (call.op \in U256Calls /\ ret.exc = "") => InU256Range(ret.val.value)
  /\ (call.op = "U256.from_list" /\ call.args[1].cls = "list"
        /\ \E i \in 1..Len(call.args[1].items) : ~InLimbRange(call.args[1].items[i]))
       => ret.exc # ""

\* a + b * 2^64 + c * 2^128 + d * 2^192
LimbSum(l) ==
  IntAdd(IntAdd(l[1], IntMul(l[2], PyInt(FALSE, Pow2(LimbBits)))),
         IntAdd(IntMul(l[3], PyInt(FALSE, Pow2(2 * LimbBits))),
                IntMul(l[4], PyInt(FALSE, Pow2(3 * LimbBits)))))

\* C6: from_list of four limbs [a, b, c, d], each in [0, 2^64 - 1], is the
\* U256 of value a + b * 2^64 + c * 2^128 + d * 2^192; from_list of a list
\* that does not hold exactly four integers fails.
C6_FromListLittleEndian ==
  (call.op = "U256.from_list" /\ call.args[1].cls = "list") =>
    LET l == call.args[1].items
    IN IF Len(l) = 4 /\ \A i \in 1..4 : l[i].cls = "int"
       THEN (\A i \in 1..4 : InLimbRange(l[i])) =>
              /\ ret.exc = ""
              /\ ret.val.cls = "U256"
              /\ ret.val.value = LimbSum(l)
       ELSE ret.exc # "" /\ ret.val = None

\* four limbs, no two alike, were put together
C6_Witness ==
  /\ call.op = "U256.from_list"
  /\ call.args[1] = PyList(<<IntOf(1), IntOf(2), IntOf(3), IntOf(4)>>)
  /\ ret.exc = ""
  /\ ret.val.value = LimbSum(call.args[1].items)

\* q is a divided by b, rounded towards minus infinity
IsFloorQuotient(q, a, b) ==
  LET r == IntSub(a, IntMul(q, b))
  IN IF b.neg THEN IntLess(b, r) /\ IntLeq(r, IntOf(0))
     ELSE IntLeq(IntOf(0), r) /\ IntLess(r, b)

\* C7: a / b and a // b fail with ZeroDivisionError when b is the U256 zero
\* and with TypeError when b is not a U256; otherwise they return a U256 of
\* value floor(a / b); a and b are left as they were.
C7_Division ==
  call.op \in {"U256.__truediv__", "U256.__floordiv__"} =>
    LET a == call.args[1]
        b == call.args[2]
    IN /\ IF b.cls # "U256" THEN ret = Raise("TypeError")
          ELSE IF b.value = IntOf(0) THEN ret = Raise("ZeroDivisionError")
          ELSE /\ ret.exc = ""
               /\ ret.val.cls = "U256"
               /\ ret.val.value.cls = "int"
               /\ IsFloorQuotient(ret.val.value, a.value, b.value)
       /\ objs[call.at[1]] = a
       /\ call.at[2] # 0 => objs[call.at[2]] = b

\* 2^256 - 1 was divided by 100
C7_Witness ==
  /\ call.op \in {"U256.__truediv__", "U256.__floordiv__"}
  /\ call.args[1].value = U256Max
  /\ call.args[2].cls = "U256"
  /\ call.args[2].value = IntOf(100)
  /\ ret.exc = ""
  /\ ret.val.value \notin {IntOf(0), U256Max}
  /\ objs[call.at[1]] = call.args[1]

\* ------------------------------------------------------------------------
\* Namespace and AddressOrNamespace

Namespace_init(namespace) == Ok([cls |-> "Namespace", namespace |-> namespace])

Namespace_to_dict(self) == Ok(self.namespace)

AddressOrNamespace_init(kind, value) ==
  IF ~isinstance(kind, {"str"}) THEN Raise("ValueError")
  ELSE IF ~isinstance(value, {"str", "Address", "Namespace"}) THEN Raise("ValueError")
  ELSE Ok([cls |-> "AddressOrNamespace", kind |-> kind, value |-> value])

\* v.to_dict() for the classes of an AddressOrNamespace payload; a str has
\* no such method
value_to_dict(v) ==
  CASE v.cls = "Address" -> Address_to_dict(v)
    [] v.cls = "Namespace" -> Namespace_to_dict(v)
    [] v.cls = "U256" -> U256_to_dict(v)
    [] OTHER -> Raise("AttributeError")

\* {key: the value of out}, or the exception of out
Dict1(key, out) ==
  IF out.exc # "" THEN out ELSE Ok(PyDict(<<<<key, out.val>>>>))

AddressOrNamespace_to_dict(self) ==
  IF self.kind = Lit("This") THEN Ok(Lit("this"))
  ELSE IF self.kind = Lit("Address") THEN Dict1(Lit("address"), value_to_dict(self.value))
  ELSE Dict1(Lit("namespace"), value_to_dict(self.value))

\* src/outputs.py: to_dict wraps the hex text, and needs bytes to make it
Legacy_Address_to_dict(self) ==
  IF self.address_bytes.cls # "bytes" THEN Raise("AttributeError")
  ELSE Ok(PyDict(<<<<Lit("Address"),
                     PyStr(Lit("0x").chars \o bytes_hex(self.address_bytes.data))>>>>))

Legacy_Namespace_init(namespace) ==
  Ok([cls |-> "LegacyNamespace", namespace |-> namespace])

Legacy_Namespace_to_dict(self) ==
  Ok(PyDict(<<<<Lit("Namespace"), self.namespace>>>>))

\* src/outputs.py: the class has no constructor of its own and takes no
\* argument; an instance has the attribute value once a client sets it
Legacy_AddressOrNamespace_init == Ok([cls |-> "LegacyAddressOrNamespace"])

Legacy_AddressOrNamespace_to_dict(self) ==
  IF "value" \notin DOMAIN self THEN Raise("AttributeError")
  ELSE IF self.value = Lit("This") THEN Ok(Lit("This"))
  ELSE CASE self.value.cls = "LegacyAddress" -> Legacy_Address_to_dict(self.value)
         [] self.value.cls = "LegacyNamespace" -> Legacy_Namespace_to_dict(self.value)
         [] OTHER -> Raise("AttributeError")

\* The names a class defines, for the classes the decoders look a name up in.
ClassAttrs(cls) ==
  CASE cls = "AddressOrNamespace" -> {"__init__", "to_dict"}
    [] cls = "LegacyAddressOrNamespace" -> {"THIS", "ADDRESS", "NAMESPACE", "to_dict"}
    [] cls = "AccountType" -> {"__init__", "to_dict"}

\* cls.name is looked up before the arguments of a call are evaluated
HasAttr(cls, name) == name \in ClassAttrs(cls)

\* The call AddressOrNamespace.from_json(json), of either module. No class
\* of that name defines from_json, so the only outcome there is to give is
\* that of the failed lookup.
AddressOrNamespace_from_json(cls, json) ==
  CASE ~HasAttr(cls, "from_json") -> Raise("AttributeError")

\* ------------------------------------------------------------------------
\* json.loads, for texts without escape sequences, fractions or exponents

JsonFail == [ok |-> FALSE, val |-> None, next |-> 0]

JsonAt(v, next) == [ok |-> TRUE, val |-> v, next |-> next]

PyBool(b) == [cls |-> "bool", val |-> b]

DecDigits == <<"0", "1", "2", "3", "4", "5", "6", "7", "8", "9">>

IsDecDigit(c) == \E d \in 1..10 : DecDigits[d] = c

DecVal(c) == (CHOOSE d \in 1..10 : DecDigits[d] = c) - 1

RECURSIVE json_skip(_, _)
json_skip(cs, i) ==
  IF i <= Len(cs) /\ cs[i] = " " THEN json_skip(cs, i + 1) ELSE i

\* the number of backslashes that end just before e, none of them before from
RECURSIVE json_backslashes(_, _, _)
json_backslashes(cs, e, from) ==
  IF e > from /\ cs[e - 1] = "\\" THEN 1 + json_backslashes(cs, e - 1, from) ELSE 0

\* the place of the quote that closes the string opened before i, or 0: the
\* first quote that an even number of backslashes precedes
json_quote(cs, i) ==
  LET Closes(e) == cs[e] = "\"" /\ json_backslashes(cs, e, i) % 2 = 0
  IN IF \A e \in i..Len(cs) : ~Closes(e) THEN 0
     ELSE CHOOSE e \in i..Len(cs) : Closes(e) /\ \A f \in i..(e - 1) : ~Closes(f)

\* the characters of a string without its escapes \" \\ \/ \n \t \r \f: a
\* backslash that an even number of backslashes precedes opens an escape
json_unescape(cs) ==
  IF \A i \in 1..Len(cs) : cs[i] # "\\" THEN cs
  ELSE LET Opens(i) == cs[i] = "\\" /\ json_backslashes(cs, i, 1) % 2 = 0
           Escaped(i) == json_backslashes(cs, i, 1) % 2 = 1
           Char(i) ==
             IF ~Escaped(i) THEN cs[i]
             ELSE CASE cs[i] \in {"\"", "\\", "/"} -> cs[i]
                    [] cs[i] = "n" -> "\n"
                    [] cs[i] = "t" -> "\t"
                    [] cs[i] = "r" -> "\r"
                    [] cs[i] = "f" -> "\f"
           kept == SelectSeq([i \in 1..Len(cs) |-> i], LAMBDA i : ~Opens(i))
       IN [k \in 1..Len(kept) |-> Char(kept[k])]

\* the place after the last digit of the digits from i on
RECURSIVE json_digits(_, _)
json_digits(cs, i) ==
  IF i <= Len(cs) /\ IsDecDigit(cs[i]) THEN json_digits(cs, i + 1) ELSE i

RECURSIVE DecMag(_, _)
DecMag(cs, acc) ==
  IF cs = <<>> THEN acc
  ELSE DecMag(Tail(cs), NatAdd(NatMulDigit(NatMulDigit(acc, 5), 2), NatOf(DecVal(cs[1]))))

json_number(cs, i) ==
  LET neg == cs[i] = "-"
      from == IF neg THEN i + 1 ELSE i
      to == json_digits(cs, from)
  IN IF to = from \/ (to > from + 1 /\ cs[from] = "0") THEN JsonFail
     ELSE JsonAt(MkInt(neg, DecMag(SubSeq(cs, from, to - 1), <<>>)), to)

json_word(cs, i, word, v) ==
  IF i + Len(word) - 1 <= Len(cs) /\ SubSeq(cs, i, i + Len(word) - 1) = word
  THEN JsonAt(v, i + Len(word))
  ELSE JsonFail

\* d[key] = value on the pairs of a dict: a key met again keeps its place
DictSet(items, key, value) ==
  IF \E k \in 1..Len(items) : items[k][1] = key
  THEN [k \in 1..Len(items) |-> IF items[k][1] = key THEN <<key, value>> ELSE items[k]]
  ELSE Append(items, <<key, value>>)

RECURSIVE json_value(_, _), json_elements(_, _, _), json_members(_, _, _)

\* the value that starts at i or after the blanks at i
json_value(cs, i0) ==
  LET i == json_skip(cs, i0)
  IN IF i > Len(cs) THEN JsonFail
     ELSE CASE cs[i] = "\"" ->
                 LET e == json_quote(cs, i + 1)
                 IN IF e = 0 THEN JsonFail
                    ELSE JsonAt(PyStr(json_unescape(SubSeq(cs, i + 1, e - 1))), e + 1)
            [] cs[i] = "{" ->
                 LET j == json_skip(cs, i + 1)
                 IN IF j <= Len(cs) /\ cs[j] = "}" THEN JsonAt(PyDict(<<>>), j + 1)
                    ELSE json_members(cs, j, <<>>)
            [] cs[i] = "[" ->
                 LET j == json_skip(cs, i + 1)
                 IN IF j <= Len(cs) /\ cs[j] = "]" THEN JsonAt(PyList(<<>>), j + 1)
                    ELSE json_elements(cs, j, <<>>)
            [] cs[i] = "-" \/ IsDecDigit(cs[i]) -> json_number(cs, i)
            [] cs[i] = "n" -> json_word(cs, i, <<"n", "u", "l", "l">>, None)
            [] cs[i] = "t" -> json_word(cs, i, <<"t", "r", "u", "e">>, PyBool(TRUE))
            [] cs[i] = "f" -> json_word(cs, i, <<"f", "a", "l", "s", "e">>, PyBool(FALSE))
            [] OTHER -> JsonFail

\* the elements of an array from i on, acc those read so far
json_elements(cs, i, acc) ==
  LET v == json_value(cs, i)
      j == json_skip(cs, v.next)
  IN IF ~v.ok \/ j > Len(cs) THEN JsonFail
     ELSE IF cs[j] = "]" THEN JsonAt(PyList(Append(acc, v.val)), j + 1)
     ELSE IF cs[j] = "," THEN json_elements(cs, j + 1, Append(acc, v.val))
     ELSE JsonFail

\* the members of an object from i on, acc those read so far
json_members(cs, i0, acc) ==
  LET i == json_skip(cs, i0)
      e == IF i <= Len(cs) /\ cs[i] = "\"" THEN json_quote(cs, i + 1) ELSE 0
      c == json_skip(cs, e + 1)
      v == json_value(cs, c + 1)
      j == json_skip(cs, v.next)
  IN IF e = 0 \/ c > Len(cs) THEN JsonFail
     ELSE IF cs[c] # ":" THEN JsonFail
     ELSE IF ~v.ok \/ j > Len(cs) THEN JsonFail
     ELSE LET items == DictSet(acc, PyStr(json_unescape(SubSeq(cs, i + 1, e - 1))), v.val)
          IN IF cs[j] = "}" THEN JsonAt(PyDict(items), j + 1)
             ELSE IF cs[j] = "," THEN json_members(cs, j + 1, items)
             ELSE JsonFail

json_loads(s) ==
  CASE s.cls = "str" ->
         LET v == json_value(s.chars, 1)
         IN IF v.ok /\ json_skip(s.chars, v.next) > Len(s.chars) THEN Ok(v.val)
            ELSE Raise("JSONDecodeError")
    [] s.cls \notin {"str", "bytes", "bytearray"} -> Raise("TypeError")

\* Account.from_json(map). AccountType defines no from_json, and the name is
\* looked up before json_account["accountType"] is: line 183 is as far as
\* any call gets, and the only outcomes there are to give are these.
Account_from_json(map) ==
  LET json_account == json_loads(map)
  IN CASE json_account.exc # "" -> json_account
       [] ~HasAttr("AccountType", "from_json") -> Raise("AttributeError")

\* --- inputs of the AddressOrNamespace calls

Str_ns == PyStr(<<"n", "s">>)

AnAddress == Address_init(PyBytes(ByteSeq(AddressLen, 1, 1))).val

ALegacyAddress == Legacy_Address_init(PyBytes(ByteSeq(AddressLen, 1, 1))).val

NamespaceArgs == {Str_ns, PyStr(<<>>), IntOf(1), None}

AONKinds ==
  {Lit("This"), Lit("Address"), Lit("Namespace"), Lit("this"), Lit("address"), None}

AONValues ==
  {AnAddress,
   Address_init(PyBytes(ByteSeq(AddressLen, 255, 0))).val,
   Namespace_init(Str_ns).val,
   Str_ns,
   Address_to_dict(AnAddress).val,
   U256_init(IntOf(1)).val,
   None}

LegacyAONValues ==
  {Lit("This"), Lit("this"), ALegacyAddress,
   Legacy_Address_init(IntList(ByteSeq(AddressLen, 1, 1))).val,
   Legacy_Namespace_init(Str_ns).val,
   Str_ns}

\* the decimal digits of a magnitude, none for 0
RECURSIVE DecText(_)
DecText(mag) ==
  IF mag = <<>> THEN <<>>
  ELSE LET d == NatDivMod(mag, <<10>>)
       IN DecText(d.q) \o <<DecDigits[(IF d.r = <<>> THEN 0 ELSE d.r[1]) + 1]>>

\* the characters of a string with its quotes and backslashes escaped
RECURSIVE json_escape(_)
json_escape(cs) ==
  IF \A i \in 1..Len(cs) : cs[i] \notin {"\"", "\\"} THEN cs
  ELSE IF Len(cs) = 1 THEN <<"\\", cs[1]>>
  ELSE json_escape(SubSeq(cs, 1, Len(cs) \div 2))
         \o json_escape(SubSeq(cs, Len(cs) \div 2 + 1, Len(cs)))

\* json.dumps of the values a client puts in a text: str, int, dict, list,
\* None
RECURSIVE JsonText(_)
JsonText(v) ==
  LET Join(n, Part(_)) ==
        LET RECURSIVE J(_)
            J(k) == IF k > n THEN <<>>
                    ELSE (IF k > 1 THEN <<",", " ">> ELSE <<>>) \o Part(k) \o J(k + 1)
        IN J(1)
  IN CASE v.cls = "str" -> <<"\"">> \o json_escape(v.chars) \o <<"\"">>
       [] v.cls = "NoneType" -> <<"n", "u", "l", "l">>
       [] v.cls = "int" ->
            (IF v.neg THEN <<"-">> ELSE <<>>)
              \o (IF v.mag = <<>> THEN <<"0">> ELSE DecText(v.mag))
       [] v.cls = "list" ->
            LET Part(k) == JsonText(v.items[k])
            IN <<"[">> \o Join(Len(v.items), Part) \o <<"]">>
       [] v.cls = "dict" ->
            LET Part(k) == JsonText(v.items[k][1]) \o <<":", " ">> \o JsonText(v.items[k][2])
            IN <<"{">> \o Join(Len(v.items), Part) \o <<"}">>

\* the key names of an account, as inputs.py reads them
AccountKey(k) ==
  CASE k = 1 -> PyStr(<<"a","c","c","o","u","n","t","T","y","p","e">>)
    [] k = 2 -> PyStr(<<"p","r","o","g","r","a","m","N","a","m","e","s","p","a","c","e">>)
    [] k = 3 -> PyStr(<<"o","w","n","e","r","A","d","d","r","e","s","s">>)
    [] k = 4 -> PyStr(<<"n","o","n","c","e">>)

\* an account text whose programNamespace is the encoded form ns
AccountText(ns) ==
  PyStr(JsonText(PyDict(<<
    <<AccountKey(1), PyStr(<<"u", "s", "e", "r">>)>>,
    <<AccountKey(2), ns>>,
    <<AccountKey(3), Address_to_dict(AnAddress).val>>,
    <<AccountKey(4), U256_to_dict(U256_init(IntOf(1)).val).val>> >>)))

AccountTexts ==
  {PyStr(<<>>), PyStr(<<"{">>), PyStr(<<"{", "}">>), PyStr(<<"[", "1", ",", " ", "-", "2", "]">>),
   PyStr(<<"{", "\"", "a", "\"", ":", "n", "u", "l", "l", ",", "}">>), PyStr(<<"t", "h", "i", "s">>),
   None, AccountText(Lit("this"))}

\* --- the AddressOrNamespace calls

CallNamespace ==
  \E namespace \in NamespaceArgs :
    /\ call' = Called("Namespace", <<namespace>>)
    /\ ret' = Namespace_init(namespace)
    /\ UNCHANGED objs

\* the payload is one of AONValues or the value just returned
CallAddressOrNamespace ==
  \E kind \in AONKinds, value \in AONValues \cup {ret.val} :
    /\ call' = Called("AddressOrNamespace", <<kind, value>>)
    /\ ret' = AddressOrNamespace_init(kind, value)
    /\ UNCHANGED objs

CallAddressOrNamespaceToDict ==
  \E self \in Targets("AddressOrNamespace") :
    /\ call' = Called("AddressOrNamespace.to_dict", <<self>>)
    /\ ret' = AddressOrNamespace_to_dict(self)
    /\ UNCHANGED objs

CallLegacyAddressOrNamespace ==
  /\ call' = Called("outputs.AddressOrNamespace", <<>>)
  /\ ret' = Legacy_AddressOrNamespace_init
  /\ UNCHANGED objs

\* the client's self.value = value on the instance just made
SetLegacyValue ==
  /\ call.op = "outputs.AddressOrNamespace"
  /\ \E value \in LegacyAONValues :
       /\ call' = Called("setattr", <<ret.val, value>>)
       /\ ret' = Ok([cls |-> "LegacyAddressOrNamespace", value |-> value])
  /\ UNCHANGED objs

CallLegacyAddressOrNamespaceToDict ==
  \E self \in Targets("LegacyAddressOrNamespace") :
    /\ call' = Called("outputs.AddressOrNamespace.to_dict", <<self>>)
    /\ ret' = Legacy_AddressOrNamespace_to_dict(self)
    /\ UNCHANGED objs

\* the encoded form to_dict has just returned
RetEncoded ==
  IF /\ call.op \in {"AddressOrNamespace.to_dict", "outputs.AddressOrNamespace.to_dict"}
     /\ ret.exc = ""
  THEN {ret.val} ELSE {}

\* what to_dict has just returned is handed to from_json of the same module;
\* of is the object that was encoded
CallAddressOrNamespaceFromJson ==
  /\ RetEncoded # {}
  /\ call' = [op |-> "AddressOrNamespace.from_json", args |-> <<ret.val>>,
              of |-> call.args[1]]
  /\ ret' = AddressOrNamespace_from_json(call.args[1].cls, ret.val)
  /\ UNCHANGED objs

\* an account text is decoded: one of AccountTexts, or one around what
\* to_dict has just returned
CallAccountFromJson ==
  \E map \in AccountTexts \cup {AccountText(ns) : ns \in RetEncoded} :
    /\ call' = Called("Account.from_json", <<map>>)
    /\ ret' = Account_from_json(map)
    /\ UNCHANGED objs

NextAddressOrNamespace ==
  \/ CallNamespace
  \/ CallAddressOrNamespace
  \/ CallAddressOrNamespaceToDict
  \/ CallLegacyAddressOrNamespace
  \/ SetLegacyValue
  \/ CallLegacyAddressOrNamespaceToDict
  \/ CallAddressOrNamespaceFromJson
  \/ CallAccountFromJson

SpecAddressOrNamespace == Init /\ [][NextAddressOrNamespace]_vars

\* ------------------------------------------------------------------------
\* Properties of AddressOrNamespace

\* the key of a one-key dict that was returned, None otherwise
RetKey ==
  IF ret.exc = "" /\ ret.val.cls = "dict" /\ Len(ret.val.items) = 1
  THEN ret.val.items[1][1] ELSE None

\* C8: AddressOrNamespace encodes per its active variant: This as "this",
\* Address holding a as {"address": a.to_dict()}, Namespace holding n as
\* {"namespace": n.to_dict()}; and no value that can be constructed encodes
\* under the key of a variant its payload does not belong to.
C8_EncodesPerVariant ==
  call.op = "AddressOrNamespace.to_dict" =>
    LET v == call.args[1]
    IN /\ v.kind = Lit("This") => ret = Ok(Lit("this"))
       /\ (v.kind = Lit("Address") /\ v.value.cls = "Address") =>
            ret = Ok(PyDict(<<<<Lit("address"), Address_to_dict(v.value).val>>>>))
       /\ (v.kind = Lit("Namespace") /\ v.value.cls = "Namespace") =>
            ret = Ok(PyDict(<<<<Lit("namespace"), v.value.namespace>>>>))
       /\ RetKey = Lit("address") => v.value.cls = "Address"
       /\ RetKey = Lit("namespace") => v.value.cls = "Namespace"

\* v is of one of the three variants, with the payload of that variant
IsVariant(v) ==
  CASE v.cls = "AddressOrNamespace" ->
         \/ v.kind = Lit("This")
         \/ v.kind = Lit("Address") /\ v.value.cls = "Address"
         \/ v.kind = Lit("Namespace") /\ v.value.cls = "Namespace"
    [] v.cls = "LegacyAddressOrNamespace" ->
         /\ "value" \in DOMAIN v
         /\ \/ v.value = Lit("This")
            \/ v.value.cls \in {"LegacyAddress", "LegacyNamespace"}
    [] OTHER -> FALSE

\* C9: decoding is symmetric to encoding: for every AddressOrNamespace v of
\* the variants This, Address and Namespace, from_json of the encoded form
\* of v is a value of the same variant with the same payload.
C9_DecodeSymmetric ==
  (call.op = "AddressOrNamespace.from_json" /\ IsVariant(call.of)) =>
    /\ ret.exc = ""
    /\ ret.val = call.of

\* ------------------------------------------------------------------------
\* The operations of the update families (src/pylasr_sdk/outputs.py)

\* One parameter of a constructor and the test made of its argument:
\* isinstance(arg, classes), or isinstance(arg, G[...]) for a subscripted
\* generic G[...] of typing, which is no class and makes isinstance raise.
Param(name, classes) == [name |-> name, classes |-> classes, generic |-> FALSE]

GenericParam(name) == [name |-> name, classes |-> {}, generic |-> TRUE]

StrKeyed == {"TokenMetadata", "TokenData", "ProgramMetadata", "ProgramData"}

OperationClasses ==
  {"Credit", "Debit"}
    \cup {f \o o : f \in StrKeyed \cup {"LinkedPrograms"}, o \in {"Insert", "Extend", "Remove"}}
    \cup {"TokenId" \o o : o \in {"Push", "Extend", "Insert", "Pop", "Remove"}}
    \cup {f \o o : f \in {"Allowance", "Approvals"},
                   o \in {"Insert", "Extend", "Remove", "Revoke"}}

\* the parameters of __init__, in the order they are tested
Params(cls) ==
  CASE cls \in {"Credit", "Debit", "TokenIdPush"} -> <<Param("value", {"U256"})>>
    [] cls \in {f \o "Insert" : f \in StrKeyed} ->
         <<Param("key", {"str"}), Param("value", {"str"})>>
    [] cls \in {f \o "Extend" : f \in StrKeyed} -> <<GenericParam("map")>>
    [] cls \in {f \o "Remove" : f \in StrKeyed} -> <<Param("key", {"str"})>>
    [] cls \in {"TokenIdExtend", "AllowanceExtend", "ApprovalsExtend", "LinkedProgramsExtend"} ->
         <<GenericParam("items")>>
    [] cls = "TokenIdInsert" -> <<Param("key", {"int"}), Param("value", {"U256"})>>
    [] cls = "TokenIdPop" -> <<>>
    [] cls = "TokenIdRemove" -> <<Param("key", {"U256"})>>
    [] cls = "AllowanceInsert" -> <<Param("key", {"Address"}), Param("value", {"U256"})>>
    [] cls \in {"AllowanceRemove", "ApprovalsRemove"} ->
         <<Param("key", {"Address"}), GenericParam("items")>>
    [] cls = "ApprovalsInsert" -> <<Param("key", {"Address"}), GenericParam("value")>>
    [] cls \in {"AllowanceRevoke", "ApprovalsRevoke", "LinkedProgramsInsert",
                "LinkedProgramsRemove"} -> <<Param("key", {"Address"})>>
    [] cls = "TokenField" -> <<Param("value", {"str"})>>
    [] cls = "TokenUpdateField" ->
         <<Param("field", {"TokenField"}), Param("value", {"TokenFieldValue"})>>
    [] cls = "TokenUpdate" ->
         <<Param("account", {"AddressOrNamespace"}), Param("token", {"AddressOrNamespace"}),
           GenericParam("updates")>>
    [] cls = "ProgramField" -> <<Param("kind", {"str"})>>
    [] cls = "ProgramUpdateField" ->
         <<Param("field", {"ProgramField"}), Param("value", {"ProgramFieldValue"})>>
    [] cls = "ProgramUpdate" ->
         <<Param("account", {"AddressOrNamespace"}), GenericParam("updates")>>
    [] cls = "TokenOrProgramUpdate" ->
         <<Param("kind", {"str"}), Param("value", {"TokenUpdate", "ProgramUpdate"})>>
    [] cls = "UpdateInstruction" -> <<GenericParam("updates")>>

\* cls(*args): the tests of __init__ one after the other, then the
\* assignments of the arguments to the attributes of their names
Operation_init(cls, args) ==
  LET params == Params(cls)
      Bad(i) == params[i].generic \/ ~isinstance(args[i], params[i].classes)
      names == {params[i].name : i \in 1..Len(params)}
  IN IF Len(args) # Len(params) THEN Raise("TypeError")
     ELSE IF \E i \in 1..Len(params) : Bad(i)
     THEN LET first == CHOOSE i \in 1..Len(params) :
                         Bad(i) /\ \A j \in 1..(i - 1) : ~Bad(j)
          IN IF params[first].generic THEN Raise("TypeError") ELSE Raise("ValueError")
     ELSE Ok([n \in {"cls"} \cup names |->
                IF n = "cls" THEN cls
                ELSE args[CHOOSE i \in 1..Len(params) : params[i].name = n]])

value_to_hex(v) ==
  IF v.cls = "U256" THEN U256_to_hex(v) ELSE Raise("AttributeError")

\* [out[1], ..., out[n]] of the outcomes out, or the first exception in them
ListOf(outs) ==
  IF \E i \in 1..Len(outs) : outs[i].exc # ""
  THEN outs[CHOOSE i \in 1..Len(outs) :
              outs[i].exc # "" /\ \A j \in 1..(i - 1) : outs[j].exc = ""]
  ELSE Ok(PyList([i \in 1..Len(outs) |-> outs[i].val]))

\* [x.to_dict() for x in xs]
EachToDict(xs) ==
  IF xs.cls # "list" THEN Raise("TypeError")
  ELSE ListOf([i \in 1..Len(xs.items) |-> value_to_dict(xs.items[i])])

\* [[item[0].to_dict(), item[1].to_dict()] for item in xs]
EachPairToDict(xs) ==
  IF xs.cls # "list" THEN Raise("TypeError")
  ELSE ListOf([i \in 1..Len(xs.items) |->
                 IF xs.items[i].cls # "list" \/ Len(xs.items[i].items) < 2
                 THEN Raise("TypeError")
                 ELSE ListOf(<<value_to_dict(xs.items[i].items[1]),
                               value_to_dict(xs.items[i].items[2])>>)])

Operation_to_dict(self) ==
  CASE self.cls = "Credit" -> Dict1(Lit("credit"), value_to_hex(self.value))
    [] self.cls = "Debit" -> Dict1(Lit("debit"), value_to_hex(self.value))
    [] self.cls \in {f \o "Insert" : f \in StrKeyed} ->
         Dict1(Lit("insert"), Ok(PyList(<<self.key, self.value>>)))
    [] self.cls \in {f \o "Extend" : f \in StrKeyed} -> Dict1(Lit("extend"), Ok(self.map))
    [] self.cls \in {f \o "Remove" : f \in StrKeyed} -> Dict1(Lit("remove"), Ok(self.key))
    [] self.cls = "TokenIdPush" -> Dict1(Lit("push"), value_to_dict(self.value))
    [] self.cls \in {"TokenIdExtend", "LinkedProgramsExtend"} ->
         Dict1(Lit("extend"), EachToDict(self.items))
    [] self.cls = "TokenIdInsert" ->
         Dict1(Lit("insert"), ListOf(<<Ok(self.key), value_to_dict(self.value)>>))
    [] self.cls = "TokenIdPop" -> Ok(Lit("pop"))
    [] self.cls \in {"TokenIdRemove", "LinkedProgramsRemove"} ->
         Dict1(Lit("remove"), value_to_dict(self.key))
    [] self.cls = "AllowanceInsert" ->
         Dict1(Lit("insert"), ListOf(<<value_to_dict(self.key), value_to_dict(self.value)>>))
    [] self.cls \in {"AllowanceExtend", "ApprovalsExtend"} ->
         Dict1(Lit("extend"), EachPairToDict(self.items))
    [] self.cls \in {"AllowanceRemove", "ApprovalsRemove"} ->
         Dict1(Lit("remove"), ListOf(<<value_to_dict(self.key), EachToDict(self.items)>>))
    [] self.cls = "ApprovalsInsert" ->
         Dict1(Lit("insert"), ListOf(<<value_to_dict(self.key), EachToDict(self.value)>>))
    [] self.cls \in {"AllowanceRevoke", "ApprovalsRevoke"} ->
         Dict1(Lit("revoke"), value_to_dict(self.key))
    [] self.cls = "LinkedProgramsInsert" -> Dict1(Lit("insert"), value_to_dict(self.key))

\* src/outputs.py: the constructors test nothing
Legacy_TokenDataInsert_init(key, value) ==
  Ok([cls |-> "LegacyTokenDataInsert", key |-> key, value |-> value])

\* src/outputs.py: the dict is built and dropped; there is no return
Legacy_TokenDataInsert_to_dict(self) ==
  LET built == Dict1(Lit("Insert"), Ok(PyList(<<self.key, self.value>>)))
  IN IF built.exc # "" THEN built ELSE Ok(None)

Legacy_TokenIdPop_init == Ok([cls |-> "LegacyTokenIdPop"])

\* src/outputs.py: {"Pop"} is a set of one str
Legacy_TokenIdPop_to_dict(self) == Ok(PySet({Lit("Pop")}))

\* --- the calls of the operations

OperationArgs ==
  {U256_init(IntOf(1)).val,
   AnAddress,
   Lit("key"),
   IntOf(1),
   PyList(<<U256_init(IntOf(1)).val>>),
   PyDict(<<<<Lit("key"), Lit("value")>>>>),
   None}

OperationOutcomes ==
  UNION {{[call |-> Called(cls, args), ret |-> Operation_init(cls, args)] :
            args \in [1..Len(Params(cls)) -> OperationArgs]} : cls \in OperationClasses}

CallOperation ==
  \E c \in OperationOutcomes :
    /\ call' = c.call
    /\ ret' = c.ret
    /\ UNCHANGED objs

CallOperationToDict ==
  /\ ret.val.cls \in OperationClasses
  /\ call' = Called(ret.val.cls \o ".to_dict", <<ret.val>>)
  /\ ret' = Operation_to_dict(ret.val)
  /\ UNCHANGED objs

CallLegacyTokenDataInsert ==
  \E key \in OperationArgs, value \in OperationArgs :
    /\ call' = Called("outputs.TokenDataInsert", <<key, value>>)
    /\ ret' = Legacy_TokenDataInsert_init(key, value)
    /\ UNCHANGED objs

CallLegacyTokenDataInsertToDict ==
  \E self \in Targets("LegacyTokenDataInsert") :
    /\ call' = Called("outputs.TokenDataInsert.to_dict", <<self>>)
    /\ ret' = Legacy_TokenDataInsert_to_dict(self)
    /\ UNCHANGED objs

CallLegacyTokenIdPop ==
  /\ call' = Called("outputs.TokenIdPop", <<>>)
  /\ ret' = Legacy_TokenIdPop_init
  /\ UNCHANGED objs

CallLegacyTokenIdPopToDict ==
  \E self \in Targets("LegacyTokenIdPop") :
    /\ call' = Called("outputs.TokenIdPop.to_dict", <<self>>)
    /\ ret' = Legacy_TokenIdPop_to_dict(self)
    /\ UNCHANGED objs

NextOperations ==
  \/ CallOperation
  \/ CallOperationToDict
  \/ CallLegacyTokenDataInsert
  \/ CallLegacyTokenDataInsertToDict
  \/ CallLegacyTokenIdPop
  \/ CallLegacyTokenIdPopToDict

SpecOperations == Init /\ [][NextOperations]_vars

\* ------------------------------------------------------------------------
\* Properties of the operations

Opcodes ==
  {Lit(o) : o \in {"insert", "extend", "remove", "revoke", "push", "pop", "credit", "debit"}}

ToDictCalls ==
  {cls \o ".to_dict" : cls \in OperationClasses}
    \cup {"outputs.TokenDataInsert.to_dict", "outputs.TokenIdPop.to_dict"}

\* C10: to_dict of every operation of every family returns a map of one key
\* {opcode: payload}, the opcode one of the lowercase insert, extend, remove,
\* revoke, push, pop, credit, debit; it never returns nothing or a bare value.
C10_SingleKeyOpcodeMap ==
  call.op \in ToDictCalls =>
    /\ ret.exc = ""
    /\ ret.val.cls = "dict"
    /\ Len(ret.val.items) = 1
    /\ ret.val.items[1][1] \in Opcodes

\* ------------------------------------------------------------------------
\* The family wrappers and the field values (src/pylasr_sdk/outputs.py)

AsciiUpper ==
  <<"A", "B", "C", "D", "E", "F", "G", "H", "I", "J", "K", "L", "M",
    "N", "O", "P", "Q", "R", "S", "T", "U", "V", "W", "X", "Y", "Z">>

AsciiLower ==
  <<"a", "b", "c", "d", "e", "f", "g", "h", "i", "j", "k", "l", "m",
    "n", "o", "p", "q", "r", "s", "t", "u", "v", "w", "x", "y", "z">>

\* s.lower(), for a str of ASCII characters
str_lower(s) ==
  PyStr([i \in 1..Len(s.chars) |->
           IF \E k \in 1..26 : AsciiUpper[k] = s.chars[i]
           THEN AsciiLower[CHOOSE k \in 1..26 : AsciiUpper[k] = s.chars[i]]
           ELSE s.chars[i]])

\* the wrappers whose constructor takes the operation alone
ValueWrappers ==
  {"BalanceValue", "TokenMetadataValue", "TokenIdValue", "AllowanceValue",
   "ApprovalsValue", "TokenDataValue", "ProgramDataValue"}

\* the wrappers whose constructor takes a kind and the operation
KindWrappers == {"LinkedProgramsValue", "ProgramMetadataValue"}

\* the classes isinstance(value, (...)) of the constructor lets through
WrappedClasses(cls) ==
  CASE cls = "BalanceValue" -> {"Debit", "Credit"}
    [] cls = "TokenMetadataValue" -> {"TokenMetadata" \o o : o \in {"Insert", "Extend", "Remove"}}
    [] cls = "TokenIdValue" ->
         {"TokenId" \o o : o \in {"Push", "Pop", "Insert", "Extend", "Remove"}}
    [] cls = "AllowanceValue" ->
         {"Allowance" \o o : o \in {"Insert", "Extend", "Remove", "Revoke"}}
    [] cls = "ApprovalsValue" ->
         {"Approvals" \o o : o \in {"Insert", "Extend", "Remove", "Revoke"}}
    [] cls = "TokenDataValue" -> {"TokenData" \o o : o \in {"Insert", "Extend", "Remove"}}
    [] cls = "LinkedProgramsValue" ->
         {"LinkedPrograms" \o o : o \in {"Insert", "Extend", "Remove"}}
    [] cls = "ProgramMetadataValue" ->
         {"ProgramMetadata" \o o : o \in {"Insert", "Extend", "Remove"}}
    [] cls = "ProgramDataValue" -> {"ProgramData" \o o : o \in {"Insert", "Extend", "Remove"}}
    [] cls = "TokenFieldValue" ->
         {"StatusValue", "TokenDataValue", "TokenMetadataValue", "ApprovalsValue",
          "AllowanceValue", "TokenIdValue", "BalanceValue"}
    [] cls = "ProgramFieldValue" ->
         {"LinkedProgramsValue", "ProgramMetadataValue", "ProgramDataValue"}

valid_kinds(cls) ==
  CASE cls = "LinkedProgramsValue" ->
         {Lit("linkedprogramsremove"), Lit("linkedprogramsextend"), Lit("linkedprogramsinsert")}
    [] cls = "ProgramMetadataValue" ->
         {Lit("programmetadatainsert"), Lit("programmetadataextend"),
          Lit("programmetadataremove")}

\* the constructor of a wrapper of ValueWrappers if it tested nothing
ValueWrapper_init_Untested(cls, value) == Ok([cls |-> cls, value |-> value])

\* Status(state) of inputs.py
Status_init(state) ==
  IF state \notin {Lit("free"), Lit("locked")} THEN Raise("ValueError")
  ELSE Ok([cls |-> "Status", state |-> state])

\* cls(value) of a wrapper of ValueWrappers
ValueWrapper_init(cls, value) ==
  IF ~isinstance(value, WrappedClasses(cls)) THEN Raise("ValueError")
  ELSE Ok([cls |-> cls, value |-> value])

\* cls(kind, value) of a wrapper of KindWrappers
KindWrapper_init(cls, kind, value) ==
  IF ~isinstance(kind, {"str"}) THEN Raise("ValueError")
  ELSE IF str_lower(kind) \notin valid_kinds(cls) THEN Raise("ValueError")
  ELSE IF ~isinstance(value, WrappedClasses(cls)) THEN Raise("ValueError")
  ELSE Ok([cls |-> cls, kind |-> kind, value |-> value])

\* StatusValue(value): the class is an Enum without members, and calling
\* such a class raises before __init__ is entered, TypeError or ValueError
\* with the version of enum.py
StatusValue_init(value) == {Raise("TypeError"), Raise("ValueError")}

\* TokenFieldValue(kind, value), ProgramFieldValue(kind, value)
FieldValue_init(cls, kind, value) ==
  IF ~isinstance(kind, {"str"}) THEN Raise("ValueError")
  ELSE IF ~isinstance(value, WrappedClasses(cls)) THEN Raise("ValueError")
  ELSE Ok([cls |-> cls, kind |-> kind, value |-> value])

\* the methods each wrapper class defines besides __init__
WrapperAttrs(cls) ==
  CASE cls = "ProgramMetadataValue" -> {"to_json"}
    [] cls \in (ValueWrappers \cup {"LinkedProgramsValue"}) -> {"to_dict"}

\* the key in the dict literal of to_dict, of to_json for ProgramMetadataValue
WrapperKey(cls) ==
  CASE cls = "BalanceValue" -> Lit("balance")
    [] cls \in {"TokenMetadataValue", "ProgramMetadataValue"} -> Lit("metadata")
    [] cls = "TokenIdValue" -> Lit("tokenIds")
    [] cls = "AllowanceValue" -> Lit("allowance")
    [] cls = "ApprovalsValue" -> Lit("approvals")
    [] cls \in {"TokenDataValue", "ProgramDataValue"} -> Lit("data")
    [] cls = "LinkedProgramsValue" -> Lit("linkedProgramValue")

\* self.to_dict() of a wrapper
Wrapper_to_dict(self) ==
  IF "to_dict" \notin WrapperAttrs(self.cls) THEN Raise("AttributeError")
  ELSE Dict1(WrapperKey(self.cls), Operation_to_dict(self.value))

\* self.to_json() of a wrapper
Wrapper_to_json(self) ==
  IF "to_json" \notin WrapperAttrs(self.cls) THEN Raise("AttributeError")
  ELSE Dict1(WrapperKey(self.cls), Operation_to_dict(self.value))

\* TokenFieldValue.to_dict, ProgramFieldValue.to_dict
FieldValue_to_dict(self) == Dict1(self.kind, Wrapper_to_dict(self.value))

\* --- the calls of the wrappers

KindArgs ==
  {Lit("LinkedProgramsInsert"), Lit("ProgramMetadataInsert"), Lit("insert"), None}

FieldKindArgs == {Lit("metadata"), Lit("linkedPrograms"), None}

StatusArgs == {Lit("free"), Lit("locked"), Lit("key")}

CallValueWrapper ==
  \E cls \in ValueWrappers, value \in {ret.val, Lit("key")} :
    /\ call' = Called(cls, <<value>>)
    /\ ret' = ValueWrapper_init(cls, value)
    /\ UNCHANGED objs

CallKindWrapper ==
  \E cls \in KindWrappers, kind \in KindArgs, value \in {ret.val, Lit("key")} :
    /\ call' = Called(cls, <<kind, value>>)
    /\ ret' = KindWrapper_init(cls, kind, value)
    /\ UNCHANGED objs

CallStatusValue ==
  \E value \in StatusArgs :
    /\ call' = Called("StatusValue", <<value>>)
    /\ ret' \in StatusValue_init(value)
    /\ UNCHANGED objs

CallStatus ==
  \E state \in StatusArgs \cup {ret.val} :
    /\ call' = Called("Status", <<state>>)
    /\ ret' = Status_init(state)
    /\ UNCHANGED objs

CallFieldValue ==
  \E cls \in {"TokenFieldValue", "ProgramFieldValue"}, kind \in FieldKindArgs :
    /\ call' = Called(cls, <<kind, ret.val>>)
    /\ ret' = FieldValue_init(cls, kind, ret.val)
    /\ UNCHANGED objs

CallWrapperToDict ==
  /\ ret.val.cls \in ValueWrappers \cup KindWrappers
  /\ call' = Called(ret.val.cls \o ".to_dict", <<ret.val>>)
  /\ ret' = Wrapper_to_dict(ret.val)
  /\ UNCHANGED objs

CallWrapperToJson ==
  /\ ret.val.cls \in ValueWrappers \cup KindWrappers
  /\ call' = Called(ret.val.cls \o ".to_json", <<ret.val>>)
  /\ ret' = Wrapper_to_json(ret.val)
  /\ UNCHANGED objs

CallFieldValueToDict ==
  /\ ret.val.cls \in {"TokenFieldValue", "ProgramFieldValue"}
  /\ call' = Called(ret.val.cls \o ".to_dict", <<ret.val>>)
  /\ ret' = FieldValue_to_dict(ret.val)
  /\ UNCHANGED objs

NextWrappers ==
  \/ CallOperation
  \/ CallValueWrapper
  \/ CallKindWrapper
  \/ CallStatusValue
  \/ CallStatus
  \/ CallFieldValue
  \/ CallWrapperToDict
  \/ CallWrapperToJson
  \/ CallFieldValueToDict

SpecWrappers == Init /\ [][NextWrappers]_vars

\* ------------------------------------------------------------------------
\* Properties of the wrappers

FamilyNames ==
  {Lit(n) : n \in {"metadata", "allowance", "approvals", "data", "tokenIds",
                   "balance", "statusValue", "linkedProgramValue"}}

\* out is {family_name: op.to_dict()} for the operation op
IsFamilyMap(out, op) ==
  /\ out.exc = ""
  /\ out.val.cls = "dict"
  /\ Len(out.val.items) = 1
  /\ out.val.items[1][1] \in FamilyNames
  /\ Ok(out.val.items[1][2]) = Operation_to_dict(op)

\* C11: two-level nesting: for every family wrapper holding an operation op,
\* the encoder TokenFieldValue and ProgramFieldValue use on it (to_dict)
\* returns exactly {family_name: op.to_dict()}, family_name one of metadata,
\* allowance, approvals, data, tokenIds, balance, statusValue,
\* linkedProgramValue, and the field value encodes as {kind: that map}; this
\* holds for a ProgramMetadataValue in a ProgramFieldValue as well.
C11_TwoLevelNesting ==
  /\ (call.op \in {cls \o ".to_dict" : cls \in ValueWrappers \cup KindWrappers}) =>
       IsFamilyMap(ret, call.args[1].value)
  /\ (call.op \in {"TokenFieldValue.to_dict", "ProgramFieldValue.to_dict"}) =>
       /\ ret.exc = ""
       /\ ret.val.cls = "dict"
       /\ Len(ret.val.items) = 1
       /\ ret.val.items[1][1] = call.args[1].kind
       /\ IsFamilyMap(Ok(ret.val.items[1][2]), call.args[1].value.value)

\* ------------------------------------------------------------------------
\* The instructions and the outputs (src/pylasr_sdk/outputs.py)

\* isinstance(arg, (None, U256)): None, the first of the tuple, is no class
\* and makes isinstance raise whatever the argument
NoneFirstParam(name) == [name |-> name, classes |-> {}, generic |-> TRUE]

\* the classes whose __init__ hands its tests to all(...) as arguments
AllTested ==
  {"TokenDistribution", "CreateInstruction", "TransferInstruction", "BurnInstruction",
   "Instruction", "Outputs"}

\* the tests inside all(...), in the order they are written
AllParams(cls) ==
  CASE cls = "TokenDistribution" ->
         <<Param("program_id", {"AddressOrNamespace"}), Param("to", {"AddressOrNamespace"}),
           NoneFirstParam("amount"), GenericParam("token_ids"),
           GenericParam("update_fields")>>
    [] cls = "CreateInstruction" ->
         <<Param("program_namespace", {"AddressOrNamespace"}),
           Param("program_id", {"AddressOrNamespace"}), Param("program_owner", {"Address"}),
           Param("total_supply", {"U256"}), Param("initialized_supply", {"U256"}),
           GenericParam("distribution")>>
    [] cls = "TransferInstruction" ->
         <<Param("token", {"Address"}), Param("transfer_from", {"AddressOrNamespace"}),
           Param("transfer_to", {"AddressOrNamespace"}), NoneFirstParam("amount"),
           GenericParam("ids")>>
    [] cls = "BurnInstruction" ->
         <<Param("caller", {"Address"}), Param("program_id", {"AddressOrNamespace"}),
           Param("token", {"Address"}), Param("burn_from", {"AddressOrNamespace"}),
           NoneFirstParam("amount"), GenericParam("token_ids")>>
    [] cls = "Instruction" ->
         <<Param("kind", {"str"}),
           Param("value", {"CreateInstruction", "BurnInstruction", "UpdateInstruction",
                           "TransferInstruction"})>>
    \* isinstance(input, str) tests the builtin input, which is no str
    [] cls = "Outputs" -> <<Param("inputs", {}), GenericParam("instructions")>>
    \* inputs.py: Transaction and Inputs
    [] cls = "Transaction" ->
         <<Param("transaction_type", {"TransactionType"}),
           Param("caller", {"Address", "LegacyAddress"}),
           Param("receiver", {"Address", "LegacyAddress"}),
           Param("program_id", {"Address", "LegacyAddress"}), Param("op", {"str"}),
           Param("inputs", {"str"}), Param("value", {"U256"}), Param("nonce", {"U256"}),
           Param("v", {"int", "bool"}), Param("r", {"U256"}), Param("s", {"U256"})>>
    [] cls = "Inputs" ->
         <<Param("version", {"int", "bool"}), Param("account_info", {"Account"}),
           Param("transaction", {"Transaction"}), Param("op", {"str"}),
           Param("contract_inputs", {"str"})>>

\* all(*tests): all takes one iterable and is given the tests themselves
py_all(tests) ==
  IF Len(tests) # 1 THEN Raise("TypeError")
  ELSE Raise("TypeError")

\* the object the assignments self.name = name of __init__ make of args
Assigned(cls, args) ==
  LET params == AllParams(cls)
      names == {params[i].name : i \in 1..Len(params)}
  IN [n \in {"cls"} \cup names |->
        IF n = "cls" THEN cls
        ELSE args[CHOOSE i \in 1..Len(params) : params[i].name = n]]

\* the constructor of a class of AllTested if it tested nothing
AllTested_init_Untested(cls, args) ==
  IF Len(args) # Len(AllParams(cls)) THEN Raise("TypeError")
  ELSE Ok(Assigned(cls, args))

\* cls(*args) of a class of AllTested: the tests are evaluated from left to
\* right as the arguments of all, then all is called, then the attributes
\* are assigned
AllTested_init(cls, args) ==
  LET params == AllParams(cls)
  IN IF Len(args) # Len(params) THEN Raise("TypeError")
     ELSE IF \E i \in 1..Len(params) : params[i].generic THEN Raise("TypeError")
     ELSE LET passed == py_all([i \in 1..Len(params) |->
                                  isinstance(args[i], params[i].classes)])
          IN IF passed.exc # "" THEN passed
             ELSE IF ~passed.val THEN Raise("ValueError")
             ELSE Ok(Assigned(cls, args))

\* LogInstruction(): the class has no __init__ and no attribute
LogInstruction_init == Ok([cls |-> "LogInstruction"])

\* v.to_dict() of an attribute v
attr_to_dict(v) ==
  CASE v.cls = "AddressOrNamespace" -> AddressOrNamespace_to_dict(v)
    [] v.cls \in {"Address", "Namespace", "U256"} -> value_to_dict(v)
    [] v.cls \in {"TokenFieldValue", "ProgramFieldValue"} -> FieldValue_to_dict(v)
    [] v.cls = "TokenField" -> Ok(v.value)
    [] v.cls = "ProgramField" -> Ok(v.kind)
    [] v.cls \in {"TokenUpdateField", "ProgramUpdateField"} ->
         LET field == IF v.field.cls = "TokenField" THEN Ok(v.field.value)
                      ELSE Ok(v.field.kind)
             value == FieldValue_to_dict(v.value)
         IN IF value.exc # "" THEN value
            ELSE Ok(PyDict(<<<<Lit("field"), field.val>>, <<Lit("value"), value.val>>>>))
    [] v.cls \in {"NoneType", "str", "int", "list", "dict", "bytes"} -> Raise("AttributeError")

\* [item.to_dict() for item in xs]
EachAttrToDict(xs) ==
  IF xs.cls # "list" THEN Raise("TypeError")
  ELSE ListOf([i \in 1..Len(xs.items) |-> attr_to_dict(xs.items[i])])

\* "null" if amount is None else amount.to_dict()
amount_to_dict(amount) ==
  IF amount = None THEN Ok(Lit("null")) ELSE attr_to_dict(amount)

\* {keys[1]: outs[1], ..., keys[n]: outs[n]}, or the first exception
DictOf(keys, outs) ==
  IF \E i \in 1..Len(outs) : outs[i].exc # ""
  THEN outs[CHOOSE i \in 1..Len(outs) :
              outs[i].exc # "" /\ \A j \in 1..(i - 1) : outs[j].exc = ""]
  ELSE Ok(PyDict([i \in 1..Len(outs) |-> <<Lit(keys[i]), outs[i].val>>]))

\* The entries of the dict literal of to_dict, in the order written: the
\* key, the attribute, and how the attribute is encoded: v.to_dict() ("one"),
\* the conditional on None ("amount"), the list comprehension ("each")
Entries(self) ==
  CASE self.cls = "TokenDistribution" ->
         <<<<"programId", "one", self.program_id>>, <<"to", "one", self.to>>,
           <<"amount", "amount", self.amount>>, <<"tokenIds", "each", self.token_ids>>,
           <<"updateFields", "each", self.update_fields>>>>
    [] self.cls = "TransferInstruction" ->
         <<<<"token", "one", self.token>>, <<"from", "one", self.transfer_from>>,
           <<"to", "one", self.transfer_to>>, <<"amount", "amount", self.amount>>,
           <<"ids", "each", self.ids>>>>
    [] self.cls = "BurnInstruction" ->
         <<<<"caller", "one", self.caller>>, <<"programId", "one", self.program_id>>,
           <<"token", "one", self.token>>, <<"from", "one", self.burn_from>>,
           <<"amount", "amount", self.amount>>, <<"ids", "each", self.token_ids>>>>
    [] self.cls = "LogInstruction" -> <<>>

\* self.to_dict() of the payload of an instruction and of a distribution
Payload_to_dict(self) ==
  LET entries == Entries(self)
  IN DictOf([i \in 1..Len(entries) |-> entries[i][1]],
            [i \in 1..Len(entries) |->
               CASE entries[i][2] = "one" -> attr_to_dict(entries[i][3])
                 [] entries[i][2] = "amount" -> amount_to_dict(entries[i][3])
                 [] entries[i][2] = "each" -> EachAttrToDict(entries[i][3])])

\* the methods the builder of log instructions defines: its body is pass
LogInstructionBuilder_init == Ok([cls |-> "LogInstructionBuilder"])

LogInstructionBuilder_build(self) ==
  CASE self.cls = "LogInstructionBuilder" -> Raise("AttributeError")

\* --- the calls of the constructors

UpdateClasses ==
  {"TokenField", "TokenUpdateField", "TokenUpdate", "ProgramField", "ProgramUpdateField",
   "ProgramUpdate", "TokenOrProgramUpdate", "UpdateInstruction"}

U256Zero == U256_init(IntOf(0)).val

U256One == U256_init(IntOf(1)).val

AThis == AddressOrNamespace_init(Lit("This"), PyStr(<<>>)).val

AnAddressVariant == AddressOrNamespace_init(Lit("Address"), AnAddress).val

ATokenField == Operation_init("TokenField", <<Lit("balance")>>).val

ATokenFieldValue ==
  FieldValue_init("TokenFieldValue", Lit("balance"),
                  ValueWrapper_init("BalanceValue", Operation_init("Credit", <<U256One>>).val).val).val

ATokenUpdateField == Operation_init("TokenUpdateField", <<ATokenField, ATokenFieldValue>>).val

AProgramField == Operation_init("ProgramField", <<Lit("metadata")>>).val

AProgramFieldValue ==
  FieldValue_init("ProgramFieldValue", Lit("data"),
                  ValueWrapper_init("ProgramDataValue",
                                    Operation_init("ProgramDataInsert",
                                                   <<Lit("key"), Lit("value")>>).val).val).val

InstructionKinds == {Lit(k) : k \in {"create", "update", "transfer", "burn", "log"}}

ANamespaceVariant == AddressOrNamespace_init(Lit("Namespace"), Namespace_init(Str_ns).val).val

AONArgs == {AThis, AnAddressVariant, ANamespaceVariant}

AmountArgs == {None, U256Zero, U256One}

IdsArgs == {PyList(<<>>), PyList(<<U256One>>)}

\* arguments of the annotated types
Typed(cls) ==
  CASE cls = "TokenField" -> {<<Lit("balance")>>, <<Lit("key")>>}
    [] cls = "TokenUpdateField" -> {<<ATokenField, ATokenFieldValue>>}
    [] cls = "TokenUpdate" -> {<<AThis, AnAddressVariant, PyList(<<ATokenUpdateField>>)>>}
    [] cls = "ProgramField" -> {<<Lit("metadata")>>, <<Lit("key")>>}
    [] cls = "ProgramUpdateField" -> {<<AProgramField, AProgramFieldValue>>}
    [] cls = "ProgramUpdate" -> {<<AThis, PyList(<<>>)>>}
    [] cls = "TokenOrProgramUpdate" -> {<<Lit("update"), None>>}
    [] cls = "UpdateInstruction" -> {<<PyList(<<>>)>>}
    [] cls = "TokenDistribution" ->
         {<<AThis, to, amount, ids, PyList(<<>>)>> :
            to \in AONArgs, amount \in AmountArgs, ids \in IdsArgs}
    [] cls = "CreateInstruction" ->
         {<<AThis, AnAddressVariant, AnAddress, U256One, U256One, PyList(<<>>)>>}
    [] cls = "TransferInstruction" ->
         {<<AnAddress, AThis, to, amount, ids>> :
            to \in AONArgs, amount \in AmountArgs, ids \in IdsArgs}
    [] cls = "BurnInstruction" ->
         {<<AnAddress, AThis, AnAddress, from, amount, ids>> :
            from \in AONArgs, amount \in AmountArgs, ids \in IdsArgs}
    [] cls = "Instruction" -> {<<kind, LogInstruction_init.val>> : kind \in InstructionKinds}
    [] cls = "Outputs" -> {<<Lit("inputs"), PyList(<<>>)>>}

\* args with one argument replaced by an int, which no parameter takes
OneWrong(args) == {[args EXCEPT ![i] = IntOf(1)] : i \in 1..Len(args)}

Construct(cls, args) ==
  IF cls \in AllTested THEN AllTested_init(cls, args) ELSE Operation_init(cls, args)

InstructionOutcomes ==
  UNION {{[call |-> Called(cls, args), ret |-> Construct(cls, args)] :
            args \in Typed(cls) \cup UNION {OneWrong(a) : a \in Typed(cls)}} :
         cls \in UpdateClasses \cup AllTested}

CallConstruct ==
  \E c \in InstructionOutcomes :
    /\ call' = c.call
    /\ ret' = c.ret
    /\ UNCHANGED objs

CallLogInstruction ==
  /\ call' = Called("LogInstruction", <<>>)
  /\ ret' = LogInstruction_init
  /\ UNCHANGED objs

\* Instruction(kind, value) on the value the last call returned
CallInstruction ==
  \E kind \in InstructionKinds :
    /\ ret.exc = ""
    /\ call' = Called("Instruction", <<kind, ret.val>>)
    /\ ret' = AllTested_init("Instruction", <<kind, ret.val>>)
    /\ UNCHANGED objs

CallPayloadToDict ==
  /\ ret.val.cls \in {"TokenDistribution", "TransferInstruction", "BurnInstruction",
                      "LogInstruction"}
  /\ call' = Called(ret.val.cls \o ".to_dict", <<ret.val>>)
  /\ ret' = Payload_to_dict(ret.val)
  /\ UNCHANGED objs

CallFieldToDict ==
  /\ ret.val.cls \in {"TokenField", "ProgramField", "TokenUpdateField", "ProgramUpdateField"}
  /\ call' = Called(ret.val.cls \o ".to_dict", <<ret.val>>)
  /\ ret' = attr_to_dict(ret.val)
  /\ UNCHANGED objs

CallLogInstructionBuilder ==
  /\ call' = Called("LogInstructionBuilder", <<>>)
  /\ ret' = LogInstructionBuilder_init
  /\ UNCHANGED objs

CallLogInstructionBuilderBuild ==
  /\ ret.val.cls = "LogInstructionBuilder"
  /\ call' = Called("LogInstructionBuilder.build", <<ret.val>>)
  /\ ret' = LogInstructionBuilder_build(ret.val)
  /\ UNCHANGED objs

NextInstructions ==
  \/ CallConstruct
  \/ CallLogInstruction
  \/ CallInstruction
  \/ CallPayloadToDict
  \/ CallFieldToDict
  \/ CallLogInstructionBuilder
  \/ CallLogInstructionBuilderBuild

SpecInstructions == Init /\ [][NextInstructions]_vars

\* ------------------------------------------------------------------------
\* Properties of the instructions

\* C13: Log is a legal Instruction variant: a LogInstruction can be wrapped
\* in an Instruction, which then encodes as {"log": {}}, the empty payload
\* under the key log, and LogInstructionBuilder produces such an Instruction.
C13_LogIsLegalVariant ==
  /\ (call.op = "Instruction" /\ call.args = <<Lit("log"), LogInstruction_init.val>>) =>
       /\ ret.exc = ""
       /\ ret.val.kind = Lit("log")
       /\ Payload_to_dict(ret.val.value) = Ok(PyDict(<<>>))
  /\ call.op = "LogInstructionBuilder.build" =>
       /\ ret.exc = ""
       /\ ret.val.cls = "Instruction"
       /\ ret.val.kind = Lit("log")

\* --- to_dict as a function of the attributes of self

AmountEncoders == {"TokenDistribution", "TransferInstruction", "BurnInstruction"}

\* self is any object holding attributes of the annotated types
InitEncoders ==
  /\ objs = <<>>
  /\ call = Called("start", <<>>)
  /\ ret \in UNION {{Ok(Assigned(cls, args)) : args \in Typed(cls)} : cls \in AmountEncoders}

SpecEncoders == InitEncoders /\ [][CallPayloadToDict]_vars

DictHas(d, key) == \E i \in 1..Len(d.items) : d.items[i][1] = key

DictGet(d, key) == d.items[CHOOSE i \in 1..Len(d.items) : d.items[i][1] = key][2]

BuilderClasses ==
  {"TokenUpdateBuilder", "TokenDistributionBuilder", "CreateInstructionBuilder",
   "UpdateInstructionBuilder", "TransferInstructionBuilder", "BurnInstructionBuilder",
   "OutputBuilder"}

\* cls(): the attributes __init__ assigns
Builder_init(cls) ==
  CASE cls = "TokenUpdateBuilder" ->
         [cls |-> cls, account |-> None, token |-> None, updates |-> PyList(<<>>)]
    [] cls = "TokenDistributionBuilder" ->
         [cls |-> cls, program_id |-> None, to |-> None, amount |-> None,
          token_ids |-> PyList(<<>>), update_fields |-> PyList(<<>>)]
    [] cls = "CreateInstructionBuilder" ->
         [cls |-> cls, program_namespace |-> None, program_id |-> None,
          program_owner |-> None, total_supply |-> None, initialized_supply |-> None,
          distribution |-> PyList(<<>>)]
    [] cls = "UpdateInstructionBuilder" -> [cls |-> cls, updates |-> PyList(<<>>)]
    [] cls = "TransferInstructionBuilder" ->
         [cls |-> cls, token |-> None, transfer_from |-> None, transfer_to |-> None,
          amount |-> None, ids |-> PyList(<<>>)]
    [] cls = "BurnInstructionBuilder" ->
         [cls |-> cls, caller |-> None, program_id |-> None, token |-> None,
          burn_from |-> None, amount |-> None, token_ids |-> PyList(<<>>)]
    [] cls = "OutputBuilder" -> [cls |-> cls, inputs |-> None, instructions |-> PyList(<<>>)]

\* A method that tests isinstance(arg, classes), raising ValueError, and
\* then assigns the argument to self.attr ("set") or appends it to the
\* list self.attr ("append")
Checked(name, classes, mode, attr) ==
  [name |-> name, test |-> "classes", classes |-> classes, mode |-> mode, attr |-> attr]

\* A method that tests isinstance(arg, List[...]), which raises
Extending(name, attr) ==
  [name |-> name, test |-> "generic", classes |-> {}, mode |-> "extend", attr |-> attr]

\* the setters and appenders of a builder
Methods(cls) ==
  CASE cls = "TokenUpdateBuilder" ->
         {Checked("add_update_account_address", {"AddressOrNamespace"}, "set", "account"),
          Checked("add_token_address", {"AddressOrNamespace"}, "set", "token"),
          Checked("add_update_field", {"TokenUpdateField"}, "append", "updates"),
          Extending("extend_update_fields", "updates")}
    [] cls = "TokenDistributionBuilder" ->
         {Checked("set_program_id", {"AddressOrNamespace"}, "set", "program_id"),
          Checked("set_receiver", {"AddressOrNamespace"}, "set", "to"),
          Checked("set_amount", {"U256"}, "set", "amount"),
          Checked("add_token_id", {"U256"}, "append", "token_ids"),
          Checked("add_update_field", {"TokenUpdateField"}, "append", "update_fields"),
          Extending("extend_token_ids", "token_ids"),
          Extending("extend_update_fields", "update_fields")}
    [] cls = "CreateInstructionBuilder" ->
         {Checked("set_program_namespace", {"AddressOrNamespace"}, "set", "program_namespace"),
          Checked("set_program_id", {"AddressOrNamespace"}, "set", "program_id"),
          Checked("set_program_owner", {"Address"}, "set", "program_owner"),
          Checked("set_total_supply", {"U256"}, "set", "total_supply"),
          Checked("set_initialized_supply", {"U256"}, "set", "initialized_supply"),
          Checked("add_token_distribution", {"TokenDistribution"}, "append", "distribution"),
          Extending("extend_token_distribution", "distribution")}
    [] cls = "UpdateInstructionBuilder" ->
         {Checked("add_update", {"TokenOrProgramUpdate"}, "append", "updates"),
          Extending("extend_updates", "updates")}
    [] cls = "TransferInstructionBuilder" ->
         {Checked("set_token_address", {"Address"}, "set", "token"),
          Checked("set_transfer_from", {"AddressOrNamespace"}, "set", "transfer_from"),
          Checked("set_transfer_to", {"AddressOrNamespace"}, "set", "transfer_to"),
          Checked("set_amount", {"U256"}, "set", "amount"),
          Checked("add_token_id", {"U256"}, "append", "ids"),
          \* extend_token_ids tests nothing
          [name |-> "extend_token_ids", test |-> "none", classes |-> {}, mode |-> "extend",
           attr |-> "ids"]}
    [] cls = "BurnInstructionBuilder" ->
         {Checked("set_caller", {"Address"}, "set", "caller"),
          Checked("set_program_id", {"AddressOrNamespace"}, "set", "program_id"),
          \* set_token_address assigns self.token_address; build reads self.token
          Checked("set_token_address", {"Address"}, "set", "token_address"),
          Checked("set_burn_from_address", {"AddressOrNamespace"}, "set", "burn_from"),
          Checked("set_amount", {"U256"}, "set", "amount"),
          Checked("add_token_id", {"U256"}, "append", "token_ids"),
          Extending("extend_token_ids", "token_ids")}
    [] cls = "OutputBuilder" ->
         {Checked("set_inputs", {"str"}, "set", "inputs"),
          Checked("add_instruction", {"Instruction"}, "append", "instructions"),
          Extending("extend_instructions", "instructions")}

\* self with self.attr = value, attr a new attribute or one self has
SetAttr(self, attr, value) ==
  [n \in DOMAIN self \cup {attr} |-> IF n = attr THEN value ELSE self[n]]

\* the methods whose body ends without "return self"
ReturnsNone ==
  {<<"TokenUpdateBuilder", "extend_update_fields">>, <<"OutputBuilder", "extend_instructions">>}

\* what the method named name returns once it has made of self the builder
\* after
Returned(self, name, after) ==
  IF <<self.cls, name>> \in ReturnsNone THEN None ELSE after

\* self.name(arg) of the method m of a builder: the builder as the call
\* leaves it, and what the call returns or raises. The methods that get
\* past their test return self, or None when they return nothing.
Builder_call(self, m, arg) ==
  IF m.test = "generic" THEN [self |-> self, out |-> Raise("TypeError")]
  ELSE IF m.test = "classes" /\ ~isinstance(arg, m.classes)
  THEN [self |-> self, out |-> Raise("ValueError")]
  ELSE IF m.mode = "set"
  THEN LET set == SetAttr(self, m.attr, arg) IN [self |-> set, out |-> Ok(set)]
  ELSE IF m.mode = "append"
  THEN LET appended == SetAttr(self, m.attr, PyList(Append(self[m.attr].items, arg)))
       IN [self |-> appended, out |-> Ok(appended)]
  \* self.attr = self.attr + arg: a list takes only a list
  ELSE IF arg.cls # "list" THEN [self |-> self, out |-> Raise("TypeError")]
  ELSE LET extended == SetAttr(self, m.attr, PyList(self[m.attr].items \o arg.items))
       IN [self |-> extended, out |-> Ok(Returned(self, m.name, extended))]

\* the attributes build tests with "is None", in the order of the tests
Required(cls) ==
  CASE cls = "TokenUpdateBuilder" -> <<"account", "token">>
    [] cls = "TokenDistributionBuilder" -> <<"program_id", "to", "amount">>
    [] cls = "CreateInstructionBuilder" -> <<"program_namespace", "program_id", "program_owner">>
    [] cls \in {"UpdateInstructionBuilder", "TransferInstructionBuilder",
                "BurnInstructionBuilder", "OutputBuilder"} -> <<>>

\* raise ValueError: the class is raised as it is, without arguments
RaiseBare(e) == [exc |-> e, val |-> None, args |-> <<>>]

\* 0xffffffffffffffffffffffffffffffffffffffffffffffffffffffffffffffff, an int
DefaultSupply == PyInt(FALSE, [i \in 1..64 |-> 15])

\* the assignments build makes to the builder before it constructs
Defaulted(self) ==
  IF self.cls # "CreateInstructionBuilder" THEN self
  ELSE LET total == IF self.total_supply = None THEN DefaultSupply ELSE self.total_supply
       IN [self EXCEPT !.total_supply = total,
                       !.initialized_supply =
                          IF self.initialized_supply = None THEN total
                          ELSE self.initialized_supply]

\* Instruction(kind, inner), inner the outcome of the inner constructor
Wrapped(kind, inner) ==
  IF inner.exc # "" THEN inner ELSE AllTested_init("Instruction", <<Lit(kind), inner.val>>)

\* the constructor calls of the return statement of build
Builder_construct(self) ==
  CASE self.cls = "TokenUpdateBuilder" ->
         \* account and token are of the class their setters test for
         LET account == AddressOrNamespace_to_dict(self.account)
             token == AddressOrNamespace_to_dict(self.token)
         IN IF account.exc # "" THEN account
            ELSE IF token.exc # "" THEN token
            ELSE Operation_init("TokenUpdate", <<account.val, token.val, self.updates>>)
    [] self.cls = "TokenDistributionBuilder" ->
         AllTested_init("TokenDistribution",
                        <<self.program_id, self.to, self.amount, self.token_ids,
                          self.update_fields>>)
    [] self.cls = "CreateInstructionBuilder" ->
         Wrapped("create",
                 AllTested_init("CreateInstruction",
                                <<self.program_namespace, self.program_id, self.program_owner,
                                  self.total_supply, self.initialized_supply,
                                  self.distribution>>))
    [] self.cls = "UpdateInstructionBuilder" ->
         Wrapped("update", Operation_init("UpdateInstruction", <<self.updates>>))
    [] self.cls = "TransferInstructionBuilder" ->
         Wrapped("transfer",
                 AllTested_init("TransferInstruction",
                                <<self.token, self.transfer_from, self.transfer_to,
                                  self.amount, self.ids>>))
    [] self.cls = "BurnInstructionBuilder" ->
         Wrapped("burn",
                 AllTested_init("BurnInstruction",
                                <<self.caller, self.program_id, self.token, self.burn_from,
                                  self.amount, self.token_ids>>))
    [] self.cls = "OutputBuilder" ->
         AllTested_init("Outputs", <<self.inputs, self.instructions>>)

\* self.build(): the tests of the required attributes, of the length of
\* updates for a TokenUpdateBuilder, the defaults, the constructor calls
Builder_build(self) ==
  LET required == Required(self.cls)
  IN IF \E i \in 1..Len(required) : self[required[i]] = None
     THEN [self |-> self, out |-> RaiseBare("ValueError")]
     ELSE IF self.cls = "TokenUpdateBuilder" /\ Len(self.updates.items) = 0
     THEN [self |-> self, out |-> RaiseBare("ValueError")]
     ELSE [self |-> Defaulted(self), out |-> Builder_construct(Defaulted(self))]

\* --- the calls of the builders: objs holds the builder at hand

MaxItems == 1

BuilderArgs ==
  {AnAddress, AThis, U256Zero, U256One, ATokenUpdateField, Lit("inputs"),
   LogInstruction_init.val, PyList(<<U256One>>), PyList(<<>>), None}

CallBuilder ==
  \E cls \in BuilderClasses :
    /\ objs' = <<Builder_init(cls)>>
    /\ call' = Called(cls, <<>>)
    /\ ret' = Ok(Builder_init(cls))

\* a call of one of the methods named in names on the builder at hand
CallMethod(names) ==
  /\ Len(objs) = 1
  /\ \E m \in Methods(objs[1].cls), arg \in BuilderArgs :
       LET done == Builder_call(objs[1], m, arg)
       IN /\ m.name \in names
          /\ m.mode # "set" => Len(done.self[m.attr].items) <= MaxItems
          /\ objs' = <<done.self>>
          /\ call' = Called(objs[1].cls \o "." \o m.name, <<objs[1], arg>>)
          /\ ret' = done.out

\* TokenUpdateBuilder(account, token): __init__ assigns None to both
\* attributes whatever its arguments are
TokenUpdateBuilder_init(account, token) ==
  [cls |-> "TokenUpdateBuilder", account |-> None, token |-> None, updates |-> PyList(<<>>)]

CallTokenUpdateBuilder ==
  \E account \in {None, AThis}, token \in {None, AnAddressVariant} :
    /\ objs' = <<TokenUpdateBuilder_init(account, token)>>
    /\ call' = Called("TokenUpdateBuilder", <<account, token>>)
    /\ ret' = Ok(TokenUpdateBuilder_init(account, token))

MethodNames == UNION {{m.name : m \in Methods(cls)} : cls \in BuilderClasses}

CallBuild ==
  /\ Len(objs) = 1
  /\ LET done == Builder_build(objs[1])
     IN /\ objs' = <<done.self>>
        /\ call' = Called(objs[1].cls \o ".build", <<objs[1]>>)
        /\ ret' = done.out

NextBuilders ==
  \/ CallBuilder
  \/ CallTokenUpdateBuilder
  \/ CallMethod(MethodNames)
  \/ CallBuild

SpecBuilders == Init /\ [][NextBuilders]_vars

\* the calls of the builders without set_initialized_supply
NextDefaultSupply ==
  \/ CallBuilder
  \/ CallMethod(MethodNames \ {"set_initialized_supply"})
  \/ CallBuild

SpecDefaultSupply == Init /\ [][NextDefaultSupply]_vars

\* ------------------------------------------------------------------------
\* Properties of the builders

BuildCalls == {cls \o ".build" : cls \in BuilderClasses}

\* the fields a built value cannot do without
RequiredFields(cls) ==
  CASE cls = "CreateInstructionBuilder" -> {"program_namespace", "program_id", "program_owner"}
    [] cls = "TransferInstructionBuilder" -> {"token", "transfer_from", "transfer_to"}
    [] cls = "BurnInstructionBuilder" -> {"caller", "program_id", "token", "burn_from"}
    [] cls = "TokenUpdateBuilder" -> {"account", "token"}
    [] cls = "TokenDistributionBuilder" -> {"program_id", "to", "amount"}
    [] cls = "OutputBuilder" -> {"inputs"}
    [] cls = "UpdateInstructionBuilder" -> {}

Complete(self) == \A f \in RequiredFields(self.cls) : self[f] # None

\* the wire key and the payload class of the instruction a builder makes
VariantOf(cls) ==
  CASE cls = "CreateInstructionBuilder" -> <<Lit("create"), "CreateInstruction">>
    [] cls = "UpdateInstructionBuilder" -> <<Lit("update"), "UpdateInstruction">>
    [] cls = "TransferInstructionBuilder" -> <<Lit("transfer"), "TransferInstruction">>
    [] cls = "BurnInstructionBuilder" -> <<Lit("burn"), "BurnInstruction">>

InstructionBuilders ==
  {"CreateInstructionBuilder", "UpdateInstructionBuilder", "TransferInstructionBuilder",
   "BurnInstructionBuilder"}

\* C12: every Instruction that can be made, through the builders as well,
\* encodes under one key, one of create, update, transfer, burn, log, that
\* matches the payload it wraps: build of an instruction builder whose
\* required fields are set returns the Instruction of the builder's variant,
\* its kind the key of that variant and its value the payload of that class.
C12_KeyMatchesPayload ==
  (/\ call.op \in {cls \o ".build" : cls \in InstructionBuilders}
   /\ Complete(call.args[1])) =>
    /\ ret.exc = ""
    /\ ret.val.cls = "Instruction"
    /\ ret.val.kind \in InstructionKinds
    /\ <<ret.val.kind, ret.val.value.cls>> = VariantOf(call.args[1].cls)

\* C15: when program_namespace, program_id and program_owner are set and
\* total_supply was never set, build of a CreateInstructionBuilder succeeds
\* and returns a Create instruction whose total_supply is the U256 of
\* 2^256 - 1.
C15_DefaultTotalSupply ==
  (/\ call.op = "CreateInstructionBuilder.build"
   /\ Complete(call.args[1])
   /\ call.args[1].total_supply = None) =>
    /\ ret.exc = ""
    /\ ret.val.value.cls = "CreateInstruction"
    /\ ret.val.value.total_supply = U256_init(U256Max).val

\* C16: as long as set_initialized_supply is never called, every Create
\* instruction build returns has initialized_supply equal to its own
\* total_supply, which are the two supplies build hands to CreateInstruction;
\* also when build is called, total_supply set again, and build called again.
C16_InitializedSupplyFollowsTotal ==
  (/\ call.op = "CreateInstructionBuilder.build"
   /\ Complete(call.args[1])) =>
    /\ objs[1].initialized_supply = objs[1].total_supply
    /\ ret.exc = ""
    /\ ret.val.value.initialized_supply = ret.val.value.total_supply

\* C17: a builder missing a required field fails build: for every builder
\* and whatever calls left the field unset, build raises and returns no
\* value, so none in which the field is empty or defaulted.
C17_MissingFieldFailsBuild ==
  (/\ call.op \in BuildCalls
   /\ ~Complete(call.args[1])) =>
    ret.exc # ""

\* build of a TransferInstructionBuilder with from and to set and no token
C17_Witness ==
  /\ call.op = "TransferInstructionBuilder.build"
  /\ call.args[1].token = None
  /\ call.args[1].transfer_from # None
  /\ call.args[1].transfer_to # None
  /\ ret.exc # ""

CreateOrder == <<"program_namespace", "program_id", "program_owner">>

\* the first field of CreateOrder the builder has not got
FirstUnset(self) ==
  CreateOrder[CHOOSE i \in 1..Len(CreateOrder) :
                /\ self[CreateOrder[i]] = None
                /\ \A j \in 1..(i - 1) : self[CreateOrder[j]] # None]

\* what an exception carries to tell it from another of its class
Named(out) ==
  IF "args" \in DOMAIN out THEN {out.args[i] : i \in 1..Len(out.args)} ELSE {}

\* C18: build of a CreateInstructionBuilder names the first unset required
\* field in the order program_namespace, program_id, program_owner: the
\* error identifies that field and no other, so that the error for one
\* missing field can be told from the error for another.
C18_NamesFirstUnsetField ==
  (/\ call.op = "CreateInstructionBuilder.build"
   /\ ~Complete(call.args[1])) =>
    /\ ret.exc # ""
    /\ Lit(FirstUnset(call.args[1])) \in Named(ret)
    /\ \A i \in 1..Len(CreateOrder) :
         CreateOrder[i] # FirstUnset(call.args[1]) => Lit(CreateOrder[i]) \notin Named(ret)

\* the class of the value each builder makes
BuiltClass(cls) ==
  CASE cls \in InstructionBuilders -> "Instruction"
    [] cls = "TokenDistributionBuilder" -> "TokenDistribution"
    [] cls = "TokenUpdateBuilder" -> "TokenUpdate"
    [] cls = "OutputBuilder" -> "Outputs"

\* the lists among the attributes of an object
ListsOf(v) == {v[n] : n \in {n \in DOMAIN v : n # "cls" /\ v[n].cls = "list"}}

\* C19: built values are immutable: build returns a value v, an Instruction,
\* a TokenDistribution, a TokenUpdate or an Outputs, whose lists are those
\* the builder had accumulated when build was called, and they stay so
\* whatever appender is called on the builder afterwards.
C19_BuiltValuesImmutable ==
  (/\ call.op \in BuildCalls
   /\ Complete(call.args[1])) =>
    /\ ret.exc = ""
    /\ ret.val.cls = BuiltClass(call.args[1].cls)
    /\ LET v == IF ret.val.cls = "Instruction" THEN ret.val.value ELSE ret.val
       IN ListsOf(v) = ListsOf(call.args[1])

\* C20: Outputs preserves order: the Outputs an OutputBuilder builds holds
\* the last string given to set_inputs, unchanged, and the instructions in
\* the order they were appended, each once, which to_dict encodes in that
\* order under "inputs" and "instructions".
C20_OutputsPreservesOrder ==
  (/\ call.op = "OutputBuilder.build"
   /\ Complete(call.args[1])) =>
    /\ ret.exc = ""
    /\ ret.val.cls = "Outputs"
    /\ ret.val.inputs = call.args[1].inputs
    /\ ret.val.instructions = call.args[1].instructions

\* ------------------------------------------------------------------------
\* Properties of the builders of update, transfer and burn instructions

\* C21: update instruction encoding is faithful and order-preserving: after
\* any calls of add_update and extend_updates, extend_updates taking a list,
\* build of an UpdateInstructionBuilder returns the Instruction of kind
\* update whose UpdateInstruction holds the updates of the builder, one per
\* added update and in the order added, which to_dict encodes in that order
\* under "update" and "updates".
C21_UpdateEncodingInOrder ==
  /\ (call.op = "UpdateInstructionBuilder.extend_updates" /\ call.args[2].cls = "list") =>
       ret.exc = ""
  /\ call.op = "UpdateInstructionBuilder.build" =>
       /\ ret.exc = ""
       /\ ret.val.kind = Lit("update")
       /\ ret.val.value.cls = "UpdateInstruction"
       /\ ret.val.value.updates = call.args[1].updates

\* C22: encoding is a total function over valid values: to_dict of a value
\* its constructor accepted returns a result and never fails; of the values
\* the claim covers, for every AddressOrNamespace the constructor returned,
\* one with a plain string payload included, to_dict returns.
C22_EncodingIsTotal ==
  (/\ call.op = "AddressOrNamespace.to_dict"
   /\ AddressOrNamespace_init(call.args[1].kind, call.args[1].value) = Ok(call.args[1])) =>
    ret.exc = ""

\* C23: a transfer built through TransferInstructionBuilder encodes to
\* {"transfer": {token, from, to, amount, ids}}: build of a builder whose
\* token, transfer_from and transfer_to are set returns the Instruction of
\* kind transfer whose TransferInstruction holds the last values given to
\* set_token_address, set_transfer_from, set_transfer_to and set_amount and
\* the ids added, in call order, the five attributes to_dict encodes.
C23_TransferReflectsSetters ==
  (/\ call.op = "TransferInstructionBuilder.build"
   /\ Complete(call.args[1])) =>
    /\ ret.exc = ""
    /\ ret.val.kind = Lit("transfer")
    /\ LET built == ret.val.value
           builder == call.args[1]
       IN /\ built.cls = "TransferInstruction"
          /\ <<built.token, built.transfer_from, built.transfer_to, built.amount, built.ids>>
               = <<builder.token, builder.transfer_from, builder.transfer_to,
                   builder.amount, builder.ids>>
          /\ [i \in 1..Len(Entries(built)) |-> Entries(built)[i][1]]
               = <<"token", "from", "to", "amount", "ids">>

\* set_token_address has been called on the builder, with an Address
TokenAddressSet(self) == "token_address" \in DOMAIN self

\* C28: BurnInstructionBuilder reflects its setters: build after set_caller,
\* set_program_id, set_token_address and set_burn_from_address returns the
\* Burn instruction whose caller, program_id, burn_from and amount are the
\* last values given to their setters, whose token_ids are the ids added in
\* call order, and whose token is the one given to set_token_address.
C28_BurnReflectsSetters ==
  (/\ call.op = "BurnInstructionBuilder.build"
   /\ TokenAddressSet(call.args[1])
   /\ \A f \in {"caller", "program_id", "burn_from"} : call.args[1][f] # None) =>
    /\ ret.exc = ""
    /\ ret.val.kind = Lit("burn")
    /\ LET built == ret.val.value
           builder == call.args[1]
       IN /\ built.cls = "BurnInstruction"
          /\ built.token = builder.token_address
          /\ <<built.caller, built.program_id, built.burn_from, built.amount, built.token_ids>>
               = <<builder.caller, builder.program_id, builder.burn_from, builder.amount,
                   builder.token_ids>>

\* C29: TokenUpdateBuilder happy path: the account and the token given to
\* the constructor are those of the builder; and when account and token
\* have been supplied and at least one update field added, build returns
\* the TokenUpdate whose account and token are those AddressOrNamespace
\* references and whose updates are the added fields in call order.
C29_TokenUpdateHappyPath ==
  /\ (call.op = "TokenUpdateBuilder" /\ Len(call.args) = 2) =>
       /\ call.args[1] # None => ret.val.account = call.args[1]
       /\ call.args[2] # None => ret.val.token = call.args[2]
  /\ (/\ call.op = "TokenUpdateBuilder.build"
      /\ Complete(call.args[1])
      /\ Len(call.args[1].updates.items) > 0) =>
       /\ ret.exc = ""
       /\ ret.val.cls = "TokenUpdate"
       /\ <<ret.val.account, ret.val.token, ret.val.updates>>
            = <<call.args[1].account, call.args[1].token, call.args[1].updates>>

\* the calls of the setters and appenders, and those of the extenders
MethodCalls(modes) ==
  UNION {{cls \o "." \o m.name : m \in {m \in Methods(cls) : m.mode \in modes}} :
           cls \in BuilderClasses}

\* C30: builder calls chain: a setter, appender or extender that accepts its
\* argument returns the builder it was called on, as the call has left it;
\* every extender accepts a list, TokenUpdateBuilder.extend_update_fields
\* and OutputBuilder.extend_instructions included, so that the calls can be
\* chained; and a call that rejects its argument leaves the builder as it
\* was.
C30_BuilderCallsChain ==
  call.op \in MethodCalls({"set", "append", "extend"}) =>
    /\ ret.exc = "" => ret.val = objs[1]
    /\ ret.exc # "" => objs[1] = call.args[1]
    /\ (call.op \in MethodCalls({"extend"}) /\ call.args[2] = PyList(<<>>)) => ret.exc = ""

\* ------------------------------------------------------------------------
\* Properties of the families and of the field-selector pairs

\* the names the operation classes of a family begin with; the wrapper of
\* the family is the name followed by Value
FamilyPrefixes ==
  {"TokenMetadata", "TokenId", "Allowance", "Approvals", "TokenData", "LinkedPrograms",
   "ProgramMetadata", "ProgramData"}

\* the operation classes of the family of the wrapper class w
OwnFamily(w) ==
  IF w = "BalanceValue" THEN {"Credit", "Debit"}
  ELSE {c \in OperationClasses :
          \E f \in FamilyPrefixes :
            /\ w = f \o "Value"
            /\ \E o \in {"Insert", "Extend", "Remove", "Revoke", "Push", "Pop"} : c = f \o o}

\* C26: families are closed: the constructor of a family wrapper returns
\* only for an operation of its own family, which the wrapper then holds,
\* and raises for every value of another family or of none; the wrappers
\* that take the operation alone accept every operation of their family;
\* StatusValue raises for every state other than free and locked, and
\* Status returns for free and locked, holding the state, and for no other.
C26_FamiliesClosed ==
  /\ call.op \in ValueWrappers \cup KindWrappers =>
       LET value == call.args[Len(call.args)]
       IN /\ ret.exc = "" => (value.cls \in OwnFamily(call.op) /\ ret.val.value = value)
          /\ value.cls \notin OwnFamily(call.op) => ret.exc = "ValueError"
          /\ (call.op \in ValueWrappers /\ value.cls \in OwnFamily(call.op)) => ret.exc = ""
  /\ (call.op = "StatusValue" /\ call.args[1] \notin {Lit("free"), Lit("locked")}) =>
       ret.exc # ""
  /\ call.op = "Status" =>
       /\ ret.exc = "" <=> call.args[1] \in {Lit("free"), Lit("locked")}
       /\ ret.exc = "" => ret.val.state = call.args[1]

\* AllowanceValue is given an ApprovalsRevoke and raises
C26_Witness ==
  /\ call.op = "AllowanceValue"
  /\ call.args[1].cls = "ApprovalsRevoke"
  /\ ret.exc = "ValueError"

\* the names of the fields of a token and of a program account
TokenFieldNames ==
  {Lit(n) : n \in {"programId", "ownerId", "balance", "metadata", "tokenIds", "allowance",
                   "approvals", "data", "status"}}

ProgramFieldNames == {Lit(n) : n \in {"linkedPrograms", "metadata", "data"}}

\* C27: field-selector pairs: a TokenUpdateField or ProgramUpdateField
\* encodes to exactly {"field": name, "value": the encoding of its value};
\* the name a TokenField or ProgramField is constructed with is one of the
\* enumerated set of its kind, the constructor raising for any other; and
\* the pair is constructed whatever family its value is of.
C27_FieldNamesEnumerated ==
  /\ (call.op = "TokenField" /\ ret.exc = "") => ret.val.value \in TokenFieldNames
  /\ (call.op = "ProgramField" /\ ret.exc = "") => ret.val.kind \in ProgramFieldNames
  /\ (call.op \in {"TokenUpdateField", "ProgramUpdateField"}
        /\ call.args[1].cls \in {"TokenField", "ProgramField"}
        /\ call.args[2].cls \in {"TokenFieldValue", "ProgramFieldValue"}
        /\ ret.exc = "") =>
       /\ ret.val.field = call.args[1]
       /\ ret.val.value = call.args[2]
  /\ (call.op \in {"TokenUpdateField.to_dict", "ProgramUpdateField.to_dict"}
        /\ ret.exc = "") =>
       /\ ret.val.cls = "dict"
       /\ [i \in 1..Len(ret.val.items) |-> ret.val.items[i][1]] = <<Lit("field"), Lit("value")>>

\* ------------------------------------------------------------------------
\* The decoders of transactions and inputs (src/pylasr_sdk/inputs.py)

\* raise KeyError(key), as a dict does for a key it has not got
RaiseKeyError(key) == [exc |-> "KeyError", val |-> None, args |-> <<key>>]

\* obj[key], obj a value json.loads returns and key a str
py_getitem(obj, key) ==
  IF obj.cls # "dict" THEN Raise("TypeError")
  ELSE IF \E k \in 1..Len(obj.items) : obj.items[k][1] = key
  THEN Ok(obj.items[CHOOSE k \in 1..Len(obj.items) : obj.items[k][1] = key][2])
  ELSE RaiseKeyError(key)

\* list(v)
py_list(v) ==
  IF v.cls \in {"str", "list", "dict", "bytes"} THEN Ok(PyList(py_iter(v)))
  ELSE Raise("TypeError")

\* int(v) of a value json.loads returns: the digits of a str are decimal,
\* after a sign and between blanks, with single underscores between them
py_int(v) ==
  CASE v.cls = "int" -> Ok(v)
    [] v.cls = "bool" -> Ok(IntOf(IF v.val THEN 1 ELSE 0))
    [] v.cls = "str" ->
         LET t == StripRight(StripLeft(v.chars))
             neg == t # <<>> /\ t[1] = "-"
             d == IF t # <<>> /\ t[1] \in {"-", "+"} THEN Tail(t) ELSE t
             ok == /\ d # <<>>
                   /\ d[1] # "_"
                   /\ d[Len(d)] # "_"
                   /\ \A i \in 1..Len(d) : IsDecDigit(d[i]) \/ d[i] = "_"
                   /\ \A i \in 1..(Len(d) - 1) : ~(d[i] = "_" /\ d[i + 1] = "_")
         IN IF ok THEN Ok(MkInt(neg, DecMag(SelectSeq(d, LAMBDA c : c # "_"), <<>>)))
            ELSE Raise("ValueError")
    [] OTHER -> Raise("TypeError")

\* the module "from outputs import" finds: src/pylasr_sdk/outputs.py when
\* inputs.py is run from its directory, src/outputs.py when src is on the path
OutputsModules == {"pylasr_sdk.outputs", "outputs"}

\* Address(address_bytes) of the module outputs
Imported_Address_init(outputs, address_bytes) ==
  IF outputs = "outputs" THEN Legacy_Address_init(address_bytes)
  ELSE Address_init(address_bytes)

\* TransactionType(kind, nonce)
TransactionType_init(kind, nonce) ==
  IF kind \notin {Lit(k) : k \in {"bridgeIn", "send", "call", "bridgeOut", "registerProgram"}}
  THEN Raise("ValueError")
  ELSE Ok([cls |-> "TransactionType", kind |-> kind, nonce |-> nonce])

\* TransactionType.from_json(map)
TransactionType_from_json(map) ==
  LET json_transaction_type == json_loads(map)
  IN IF json_transaction_type.exc # "" THEN json_transaction_type
     \* .keys() is of a dict alone
     ELSE IF json_transaction_type.val.cls # "dict" THEN Raise("AttributeError")
     ELSE IF json_transaction_type.val.items = <<>> THEN Raise("IndexError")
     ELSE LET kind == json_transaction_type.val.items[1][1]
              nonce == U256_from_hex(json_transaction_type.val.items[1][2])
          IN IF nonce.exc # "" THEN nonce ELSE TransactionType_init(kind, nonce.val)

\* the first of outs that is an exception, or cls(*values) of their values
FirstRaisedOr(cls, outs) ==
  IF \E i \in 1..Len(outs) : outs[i].exc # ""
  THEN outs[CHOOSE i \in 1..Len(outs) :
              outs[i].exc # "" /\ \A j \in 1..(i - 1) : outs[j].exc = ""]
  ELSE AllTested_init(cls, [i \in 1..Len(outs) |-> outs[i].val])

\* f(obj[key]), or what obj[key] raises
Applied(item, F(_)) == IF item.exc # "" THEN item ELSE F(item.val)

\* Transaction.from_json(map), Address and U256 those of the module outputs
Transaction_from_json(outputs, map) ==
  LET json_transaction == json_loads(map)
      Get(key) == py_getitem(json_transaction.val, Lit(key))
      AddressOf(v) ==
        LET l == py_list(v)
        IN IF l.exc # "" THEN l ELSE Imported_Address_init(outputs, l.val)
  IN IF json_transaction.exc # "" THEN json_transaction
     ELSE FirstRaisedOr("Transaction",
            <<Applied(Get("transactionType"), TransactionType_from_json),
              Applied(Get("from"), AddressOf),
              Applied(Get("to"), AddressOf),
              Applied(Get("programId"), AddressOf),
              Get("op"),
              Get("trasnactionInputs"),
              Applied(Get("value"), U256_from_hex),
              Applied(Get("nonce"), U256_from_hex),
              Applied(Get("v"), py_int),
              Applied(Get("r"), U256_from_hex),
              Applied(Get("s"), U256_from_hex)>>)

\* Inputs.from_json(map)
Inputs_from_json(outputs, map) ==
  LET json_inputs == json_loads(map)
      Get(key) == py_getitem(json_inputs.val, Lit(key))
      TransactionOf(v) == Transaction_from_json(outputs, v)
  IN IF json_inputs.exc # "" THEN json_inputs
     ELSE FirstRaisedOr("Inputs",
            <<Applied(Get("version"), py_int),
              Applied(Get("accountInfo"), Account_from_json),
              Applied(Get("transaction"), TransactionOf),
              Get("op"),
              Get("contractInputs")>>)

\* the keys of the dict Transaction.to_dict returns, in the order written
TransactionKeys ==
  <<"transactionType", "from", "to", "programId", "op", "transactionInputs", "value", "nonce",
    "v", "r", "s">>

\* the keys of the dict Inputs.to_dict returns
InputsKeys == <<"version", "accountInfo", "transaction", "op", "contractInputs">>

\* --- the texts that are decoded

\* a dict without the key named key, and with another value under it
Without(d, key) == PyDict(SelectSeq(d.items, LAMBDA item : item[1] # Lit(key)))

WithValue(d, key, value) == PyDict(DictSet(d.items, Lit(key), value))

HexOne == U256_to_dict(U256One).val

\* what TransactionType.to_dict returns for a call
TransactionTypeWire == PyDict(<<<<Lit("call"), HexOne>>>>)

\* the forms of a transaction type, of an address and of the key of the
\* inputs: those Transaction.to_dict writes come first, those from_json
\* reads second
TypeForms == <<TransactionTypeWire, PyStr(JsonText(TransactionTypeWire))>>

AddressForms ==
  <<Address_to_dict(AnAddress).val, PyList([i \in 1..AddressLen |-> IntOf(i)])>>

InputsKeyForms == <<"transactionInputs", "trasnactionInputs">>

\* a transaction with every key, its transaction type, addresses and inputs
\* key in the forms numbered t, a and k
TransactionBlob(t, a, k) ==
  PyDict(<<<<Lit("transactionType"), TypeForms[t]>>, <<Lit("from"), AddressForms[a]>>,
           <<Lit("to"), AddressForms[a]>>, <<Lit("programId"), AddressForms[a]>>,
           <<Lit("op"), Lit("op")>>, <<Lit(InputsKeyForms[k]), Lit("inputs")>>,
           <<Lit("value"), HexOne>>, <<Lit("nonce"), HexOne>>, <<Lit("v"), IntOf(1)>>,
           <<Lit("r"), HexOne>>, <<Lit("s"), HexOne>>>>)

\* the transactions with every key, those without one of the keys of
\* to_dict, and those whose value is no hexadecimal number
TransactionBlobs ==
  UNION {{b, WithValue(b, "value", Lit("key"))}
           \cup {Without(b, TransactionKeys[i]) : i \in 1..Len(TransactionKeys)} :
         b \in {TransactionBlob(t, a, k) : t \in 1..2, a \in 1..2, k \in 1..2}}

TransactionOutcomes ==
  {[call |-> [op |-> "Transaction.from_json", args |-> <<PyStr(JsonText(b))>>, of |-> b,
              outputs |-> outputs],
    ret |-> Transaction_from_json(outputs, PyStr(JsonText(b)))] :
     b \in TransactionBlobs, outputs \in OutputsModules}

CallTransactionFromJson ==
  \E c \in TransactionOutcomes :
    /\ call' = c.call
    /\ ret' = c.ret
    /\ UNCHANGED objs

TransactionTypeTexts ==
  {PyStr(JsonText(v)) :
     v \in {TransactionTypeWire, PyDict(<<>>), PyList(<<>>), PyDict(<<<<Lit("key"), HexOne>>>>),
            PyDict(<<<<Lit("send"), Lit("key")>>>>), PyDict(<<<<Lit("send"), IntOf(1)>>>>)}}
    \cup {TransactionTypeWire, PyStr(<<"{">>)}

CallTransactionTypeFromJson ==
  \E map \in TransactionTypeTexts :
    /\ call' = Called("TransactionType.from_json", <<map>>)
    /\ ret' = TransactionType_from_json(map)
    /\ UNCHANGED objs

\* what Account.to_dict returns, a list in the place of the set
AccountWire ==
  PyDict(<<<<Lit("accountType"), Lit("user")>>,
           <<Lit("programNamespace"), AddressOrNamespace_to_dict(AThis).val>>,
           <<Lit("ownerAddress"), Address_to_dict(AnAddress).val>>,
           <<Lit("programs"), PyDict(<<>>)>>, <<Lit("nonce"), HexOne>>,
           <<Lit("programAccountData"), PyDict(<<>>)>>,
           <<Lit("programAccountMetadata"), PyDict(<<>>)>>,
           <<Lit("programAccountLinkedPrograms"), PyList(<<>>)>>>>)

\* a value as it is and as the text from_json hands to json.loads
Forms(v) == <<v, PyStr(JsonText(v))>>

\* inputs with every key, the account in the form numbered a and the
\* transaction, one of transactions, in the form numbered t
InputsBlob(a, t, transaction) ==
  PyDict(<<<<Lit("version"), IntOf(1)>>, <<Lit("accountInfo"), Forms(AccountWire)[a]>>,
           <<Lit("transaction"), Forms(transaction)[t]>>, <<Lit("op"), Lit("op")>>,
           <<Lit("contractInputs"), Lit("inputs")>>>>)

InputsBlobs ==
  UNION {{b} \cup {Without(b, InputsKeys[i]) : i \in 1..Len(InputsKeys)} :
         b \in {InputsBlob(a, t, TransactionBlob(k, k, k)) : a \in 1..2, t \in 1..2, k \in 1..2}}

InputsOutcomes ==
  {[call |-> [op |-> "Inputs.from_json", args |-> <<PyStr(JsonText(b))>>, of |-> b,
              outputs |-> outputs],
    ret |-> Inputs_from_json(outputs, PyStr(JsonText(b)))] :
     b \in InputsBlobs, outputs \in OutputsModules}

CallInputsFromJson ==
  \E c \in InputsOutcomes :
    /\ call' = c.call
    /\ ret' = c.ret
    /\ UNCHANGED objs

NextInputs ==
  \/ CallTransactionFromJson
  \/ CallTransactionTypeFromJson
  \/ CallInputsFromJson
  \/ CallAccountFromJson

SpecInputs == Init /\ [][NextInputs]_vars

\* ------------------------------------------------------------------------
\* Properties of the decoders of transactions and inputs

\* the keys of the dict d
KeysOf(d) == {d.items[i][1] : i \in 1..Len(d.items)}

\* the dict d has the keys named in keys but for those named in missing,
\* and no other
HasKeysBut(d, keys, missing) ==
  KeysOf(d) = {Lit(keys[i]) : i \in 1..Len(keys)} \ {Lit(k) : k \in missing}

\* C24: transaction decoding errors: from_json of a text in which every key
\* Transaction.to_dict writes except nonce is present and well formed raises
\* the missing-key error that names nonce; from_json of a text with every
\* key whose value is no hexadecimal number raises the format error
\* ValueError; and in neither case does from_json return.
C24_TransactionDecodingErrors ==
  call.op = "Transaction.from_json" =>
    /\ HasKeysBut(call.of, TransactionKeys, {"nonce"}) => ret = RaiseKeyError(Lit("nonce"))
    /\ (/\ HasKeysBut(call.of, TransactionKeys, {})
        /\ py_getitem(call.of, Lit("value")).val = Lit("key")) => ret.exc = "ValueError"
    /\ KeysOf(call.of) # {Lit(TransactionKeys[i]) : i \in 1..Len(TransactionKeys)} =>
         ret.exc # ""

\* C25: inbound decoding succeeds on well-formed input: Inputs.from_json of
\* a text with every key of Inputs, the account and the transaction well
\* formed, returns the Inputs whose version, op and contract_inputs are
\* those of the text; and Transaction.from_json of a text with every key
\* Transaction.to_dict writes returns the Transaction whose op is that of
\* the text and whose inputs are those under the key transactionInputs.
C25_InboundDecodingSucceeds ==
  /\ (call.op = "Inputs.from_json" /\ HasKeysBut(call.of, InputsKeys, {})) =>
       /\ ret.exc = ""
       /\ ret.val.cls = "Inputs"
       /\ Ok(ret.val.version) = py_getitem(call.of, Lit("version"))
       /\ Ok(ret.val.op) = py_getitem(call.of, Lit("op"))
       /\ Ok(ret.val.contract_inputs) = py_getitem(call.of, Lit("contractInputs"))
  /\ (/\ call.op = "Transaction.from_json"
      /\ HasKeysBut(call.of, TransactionKeys, {})
      /\ py_getitem(call.of, Lit("value")).val = HexOne) =>
       /\ ret.exc = ""
       /\ ret.val.cls = "Transaction"
       /\ Ok(ret.val.op) = py_getitem(call.of, Lit("op"))
       /\ Ok(ret.val.inputs) = py_getitem(call.of, Lit("transactionInputs"))

====
